---- MODULE Spec2Model ----
(***************************************************************************)
(* A model of the task-orchestration engine of the investment advisor:     *)
(* the query interpreter (TaskPlanner.parse_query), the task graph builder *)
(* (TaskPlanner.create_task_plan), the scheduler/executor                  *)
(* (TaskExecutor.execute_plan) and the session memory they share.          *)
(*                                                                         *)
(* Text is a sequence of one-character strings, so that case conversion,   *)
(* stripping and regular-expression search are computed on characters.     *)
(***************************************************************************)
EXTENDS Integers, Sequences, FiniteSets

----------------------------------------------------------------------------
(* Characters and the str methods parse_query uses                         *)

UpperLetters == <<"A","B","C","D","E","F","G","H","I","J","K","L","M",
                  "N","O","P","Q","R","S","T","U","V","W","X","Y","Z">>
LowerLetters == <<"a","b","c","d","e","f","g","h","i","j","k","l","m",
                  "n","o","p","q","r","s","t","u","v","w","x","y","z">>
Digits == {"0","1","2","3","4","5","6","7","8","9"}
UpperSet == {UpperLetters[k] : k \in 1..26}
LowerSet == {LowerLetters[k] : k \in 1..26}
Whitespace == {" "}

\* \w of the re module: letters, digits and the underscore
WordChars == UpperSet \cup LowerSet \cup Digits \cup {"_"}

LetterIndex(c) == CHOOSE k \in 1..26 : UpperLetters[k] = c \/ LowerLetters[k] = c

lower_char(c) == IF c \in UpperSet THEN LowerLetters[LetterIndex(c)] ELSE c
upper_char(c) == IF c \in LowerSet THEN UpperLetters[LetterIndex(c)] ELSE c

\* str.lower() and str.upper()
lower(s) == [k \in 1..Len(s) |-> lower_char(s[k])]
upper(s) == [k \in 1..Len(s) |-> upper_char(s[k])]

\* str.strip(): drop leading and trailing whitespace
RECURSIVE lstrip(_)
lstrip(s) == IF s # <<>> /\ Head(s) \in Whitespace THEN lstrip(Tail(s)) ELSE s
RECURSIVE rstrip(_)
rstrip(s) ==
  IF s # <<>> /\ s[Len(s)] \in Whitespace THEN rstrip(SubSeq(s, 1, Len(s) - 1)) ELSE s
strip(s) == rstrip(lstrip(s))

----------------------------------------------------------------------------
(* Regular expressions: the fragment of Python's re the patterns use.      *)
(* A pattern is a tree; M gives the matches of a pattern at a position in  *)
(* the order the backtracking matcher of re tries them, so that the first  *)
(* one is the match re reports (greedy repeats try more first, lazy ones   *)
(* fewer first, alternatives left to right).                               *)

Str(s) == [op |-> "str", s |-> s]
In(cs) == [op |-> "in", cs |-> cs]
AnyChar == [op |-> "any"]
WordBoundary == [op |-> "wb"]
Cat(rs) == [op |-> "cat", rs |-> rs]
Alt(rs) == [op |-> "alt", rs |-> rs]
\* r repeated lo to hi times, or lo times and more when there is no cap
Repeat(r, lo, hi, greedy) ==
  [op |-> "rep", r |-> r, lo |-> lo, capped |-> TRUE, hi |-> hi, greedy |-> greedy]
RepeatFrom(r, lo, greedy) ==
  [op |-> "rep", r |-> r, lo |-> lo, capped |-> FALSE, hi |-> lo, greedy |-> greedy]
Grp(n, r) == [op |-> "grp", n |-> n, r |-> r]

Space == In(Whitespace)
Plus(r) == RepeatFrom(r, 1, TRUE)
Opt(r) == Repeat(r, 0, 1, TRUE)
Lazy(r) == RepeatFrom(r, 0, FALSE)
\* [A-Z]{1,5}
Sym == Repeat(In(UpperSet), 1, 5, TRUE)

NoGroups == [g1 |-> <<>>, g2 |-> <<>>]
At(i, groups) == [pos |-> i, groups |-> groups]

IsWordAt(s, i) == i >= 1 /\ i <= Len(s) /\ s[i] \in WordChars

SetGroup(groups, n, v) == IF n = 1 THEN [groups EXCEPT !.g1 = v] ELSE [groups EXCEPT !.g2 = v]

RECURSIVE M(_, _, _, _)
RECURSIVE MCat(_, _, _, _, _)
RECURSIVE MCatEach(_, _, _, _, _)
RECURSIVE MAlt(_, _, _, _, _)
RECURSIVE MRep(_, _, _, _, _)
RECURSIVE MRepEach(_, _, _, _, _)
RECURSIVE MGrpEach(_, _, _, _, _)

M(r, s, i, groups) ==
  CASE r.op = "str" ->
         IF i + Len(r.s) - 1 <= Len(s) /\ SubSeq(s, i, i + Len(r.s) - 1) = r.s
         THEN <<At(i + Len(r.s), groups)>> ELSE <<>>
    [] r.op = "in" ->
         IF i <= Len(s) /\ s[i] \in r.cs THEN <<At(i + 1, groups)>> ELSE <<>>
    [] r.op = "any" ->
         IF i <= Len(s) /\ s[i] # "\n" THEN <<At(i + 1, groups)>> ELSE <<>>
    [] r.op = "wb" ->
         IF IsWordAt(s, i - 1) # IsWordAt(s, i) THEN <<At(i, groups)>> ELSE <<>>
    [] r.op = "cat" -> MCat(r.rs, 1, s, i, groups)
    [] r.op = "alt" -> MAlt(r.rs, 1, s, i, groups)
    [] r.op = "rep" -> MRep(r, s, i, groups, 0)
    [] r.op = "grp" -> MGrpEach(r.n, s, i, M(r.r, s, i, groups), 1)

\* the items rs[k..] in sequence, starting at position i
MCat(rs, k, s, i, groups) ==
  IF k > Len(rs) THEN <<At(i, groups)>>
  ELSE MCatEach(rs, k + 1, s, M(rs[k], s, i, groups), 1)

MCatEach(rs, k, s, xs, j) ==
  IF j > Len(xs) THEN <<>>
  ELSE MCat(rs, k, s, xs[j].pos, xs[j].groups) \o MCatEach(rs, k, s, xs, j + 1)

MAlt(rs, k, s, i, groups) ==
  IF k > Len(rs) THEN <<>>
  ELSE M(rs[k], s, i, groups) \o MAlt(rs, k + 1, s, i, groups)

\* n repetitions of r.r are done; what follows at position i
MRep(r, s, i, groups, n) ==
  LET more == IF ~r.capped \/ n < r.hi
              THEN MRepEach(r, s, M(r.r, s, i, groups), 1, n + 1) ELSE <<>>
      stop == IF n >= r.lo THEN <<At(i, groups)>> ELSE <<>>
  IN  IF r.greedy THEN more \o stop ELSE stop \o more

MRepEach(r, s, xs, j, n) ==
  IF j > Len(xs) THEN <<>>
  ELSE MRep(r, s, xs[j].pos, xs[j].groups, n) \o MRepEach(r, s, xs, j + 1, n)

MGrpEach(n, s, i, xs, j) ==
  IF j > Len(xs) THEN <<>>
  ELSE <<At(xs[j].pos, SetGroup(xs[j].groups, n, SubSeq(s, i, xs[j].pos - 1)))>>
       \o MGrpEach(n, s, i, xs, j + 1)

NoMatch == [found |-> FALSE, start |-> 0, pos |-> 0, groups |-> NoGroups]

\* re.search(pattern, s): the first match at the leftmost position that has one
RECURSIVE search_from(_, _, _)
search_from(r, s, i) ==
  IF i > Len(s) + 1 THEN NoMatch
  ELSE LET xs == M(r, s, i, NoGroups)
       IN  IF xs # <<>>
           THEN [found |-> TRUE, start |-> i, pos |-> xs[1].pos, groups |-> xs[1].groups]
           ELSE search_from(r, s, i + 1)

search(r, s) == search_from(r, s, 1)

\* re.findall(pattern, s) of a pattern without groups: the non-overlapping
\* matches, scanning left to right
RECURSIVE findall_from(_, _, _)
findall_from(r, s, i) ==
  LET m == search_from(r, s, i)
  IN  IF ~m.found THEN <<>>
      ELSE <<SubSeq(s, m.start, m.pos - 1)>>
           \o findall_from(r, s, IF m.pos > m.start THEN m.pos ELSE m.pos + 1)

findall(r, s) == findall_from(r, s, 1)

----------------------------------------------------------------------------
(* TaskPlanner: the pattern table, symbol extraction and classification    *)

query_patterns ==
  [ stock_analysis |-> <<
      \* r'analyz[e|ing].*?(?:stock|symbol|ticker)\s+([A-Z]{1,5})'
      Cat(<<Str(<<"a","n","a","l","y","z">>), In({"e","|","i","n","g"}), Lazy(AnyChar), Alt(<<Str(<<"s","t","o","c","k">>), Str(<<"s","y","m","b","o","l">>), Str(<<"t","i","c","k","e","r">>)>>), Plus(Space), Grp(1, Sym)>>),
      \* r'(?:stock|symbol|ticker)\s+([A-Z]{1,5}).*?analyz'
      Cat(<<Alt(<<Str(<<"s","t","o","c","k">>), Str(<<"s","y","m","b","o","l">>), Str(<<"t","i","c","k","e","r">>)>>), Plus(Space), Grp(1, Sym), Lazy(AnyChar), Str(<<"a","n","a","l","y","z">>)>>),
      \* r'tell me about\s+([A-Z]{1,5})'
      Cat(<<Str(<<"t","e","l","l"," ","m","e"," ","a","b","o","u","t">>), Plus(Space), Grp(1, Sym)>>),
      \* r'research\s+([A-Z]{1,5})'
      Cat(<<Str(<<"r","e","s","e","a","r","c","h">>), Plus(Space), Grp(1, Sym)>>)
    >>
  , comparison |-> <<
      \* r'compar[e|ing].*?([A-Z]{1,5}).*?(?:and|vs|versus)\s+([A-Z]{1,5})'
      Cat(<<Str(<<"c","o","m","p","a","r">>), In({"e","|","i","n","g"}), Lazy(AnyChar), Grp(1, Sym), Lazy(AnyChar), Alt(<<Str(<<"a","n","d">>), Str(<<"v","s">>), Str(<<"v","e","r","s","u","s">>)>>), Plus(Space), Grp(2, Sym)>>),
      \* r'([A-Z]{1,5})\s+(?:vs|versus)\s+([A-Z]{1,5})'
      Cat(<<Grp(1, Sym), Plus(Space), Alt(<<Str(<<"v","s">>), Str(<<"v","e","r","s","u","s">>)>>), Plus(Space), Grp(2, Sym)>>),
      \* r'difference between\s+([A-Z]{1,5})\s+and\s+([A-Z]{1,5})'
      Cat(<<Str(<<"d","i","f","f","e","r","e","n","c","e"," ","b","e","t","w","e","e","n">>), Plus(Space), Grp(1, Sym), Plus(Space), Str(<<"a","n","d">>), Plus(Space), Grp(2, Sym)>>)
    >>
  , technical_analysis |-> <<
      \* r'technical\s+(?:analysis|indicators?)'
      Cat(<<Str(<<"t","e","c","h","n","i","c","a","l">>), Plus(Space), Alt(<<Str(<<"a","n","a","l","y","s","i","s">>), Cat(<<Str(<<"i","n","d","i","c","a","t","o","r">>), Opt(Str(<<"s">>))>>)>>)>>),
      \* r'(?:rsi|macd|bollinger|moving average)'
      Alt(<<Str(<<"r","s","i">>), Str(<<"m","a","c","d">>), Str(<<"b","o","l","l","i","n","g","e","r">>), Str(<<"m","o","v","i","n","g"," ","a","v","e","r","a","g","e">>)>>),
      \* r'trading\s+(?:signals?|strategy)'
      Cat(<<Str(<<"t","r","a","d","i","n","g">>), Plus(Space), Alt(<<Cat(<<Str(<<"s","i","g","n","a","l">>), Opt(Str(<<"s">>))>>), Str(<<"s","t","r","a","t","e","g","y">>)>>)>>),
      \* r'chart\s+(?:pattern|analysis)'
      Cat(<<Str(<<"c","h","a","r","t">>), Plus(Space), Alt(<<Str(<<"p","a","t","t","e","r","n">>), Str(<<"a","n","a","l","y","s","i","s">>)>>)>>)
    >>
  , backtesting |-> <<
      \* r'backtest'
      Str(<<"b","a","c","k","t","e","s","t">>),
      \* r'(?:test|testing)\s+(?:strategy|strategies)'
      Cat(<<Alt(<<Str(<<"t","e","s","t">>), Str(<<"t","e","s","t","i","n","g">>)>>), Plus(Space), Alt(<<Str(<<"s","t","r","a","t","e","g","y">>), Str(<<"s","t","r","a","t","e","g","i","e","s">>)>>)>>),
      \* r'historical\s+performance'
      Cat(<<Str(<<"h","i","s","t","o","r","i","c","a","l">>), Plus(Space), Str(<<"p","e","r","f","o","r","m","a","n","c","e">>)>>),
      \* r'strategy\s+performance'
      Cat(<<Str(<<"s","t","r","a","t","e","g","y">>), Plus(Space), Str(<<"p","e","r","f","o","r","m","a","n","c","e">>)>>)
    >>
  , reporting |-> <<
      \* r'(?:create|generate|make)\s+(?:report|presentation)'
      Cat(<<Alt(<<Str(<<"c","r","e","a","t","e">>), Str(<<"g","e","n","e","r","a","t","e">>), Str(<<"m","a","k","e">>)>>), Plus(Space), Alt(<<Str(<<"r","e","p","o","r","t">>), Str(<<"p","r","e","s","e","n","t","a","t","i","o","n">>)>>)>>),
      \* r'(?:pdf|powerpoint|ppt)\s+report'
      Cat(<<Alt(<<Str(<<"p","d","f">>), Str(<<"p","o","w","e","r","p","o","i","n","t">>), Str(<<"p","p","t">>)>>), Plus(Space), Str(<<"r","e","p","o","r","t">>)>>),
      \* r'export\s+(?:analysis|results)'
      Cat(<<Str(<<"e","x","p","o","r","t">>), Plus(Space), Alt(<<Str(<<"a","n","a","l","y","s","i","s">>), Str(<<"r","e","s","u","l","t","s">>)>>)>>),
      \* r'summarize\s+(?:analysis|findings)'
      Cat(<<Str(<<"s","u","m","m","a","r","i","z","e">>), Plus(Space), Alt(<<Str(<<"a","n","a","l","y","s","i","s">>), Str(<<"f","i","n","d","i","n","g","s">>)>>)>>)
    >>
  , chart_request |-> <<
      \* r'(?:show|display|create|generate|plot)\s+(?:chart|graph)'
      Cat(<<Alt(<<Str(<<"s","h","o","w">>), Str(<<"d","i","s","p","l","a","y">>), Str(<<"c","r","e","a","t","e">>), Str(<<"g","e","n","e","r","a","t","e">>), Str(<<"p","l","o","t">>)>>), Plus(Space), Alt(<<Str(<<"c","h","a","r","t">>), Str(<<"g","r","a","p","h">>)>>)>>),
      \* r'visualiz[e|ation]'
      Cat(<<Str(<<"v","i","s","u","a","l","i","z">>), In({"e","|","a","t","i","o","n"})>>),
      \* r'plot\s+(?:price|performance|data)'
      Cat(<<Str(<<"p","l","o","t">>), Plus(Space), Alt(<<Str(<<"p","r","i","c","e">>), Str(<<"p","e","r","f","o","r","m","a","n","c","e">>), Str(<<"d","a","t","a">>)>>)>>),
      \* r'chart\s+(?:of|for)'
      Cat(<<Str(<<"c","h","a","r","t">>), Plus(Space), Alt(<<Str(<<"o","f">>), Str(<<"f","o","r">>)>>)>>)
    >>
  ]


\* the order in which query_patterns.items() yields the categories
CategoryOrder ==
  <<"stock_analysis", "comparison", "technical_analysis",
    "backtesting", "reporting", "chart_request">>

\* r'\b[A-Z]{1,5}\b'
symbol_pattern == Cat(<<WordBoundary, Sym, WordBoundary>>)

common_words ==
  {<<"T","H","E">>,
   <<"A","N","D">>,
   <<"O","R">>,
   <<"F","O","R">>,
   <<"T","O">>,
   <<"O","F">>,
   <<"I","N">>,
   <<"O","N">>,
   <<"A","T">>,
   <<"B","Y">>,
   <<"I","S">>,
   <<"A","R","E">>,
   <<"W","A","S">>,
   <<"W","E","R","E">>}

RECURSIVE Without(_, _)
Without(xs, drop) ==
  IF xs = <<>> THEN <<>>
  ELSE (IF Head(xs) \in drop THEN <<>> ELSE <<Head(xs)>>) \o Without(Tail(xs), drop)

extract_symbols(query) == Without(findall(symbol_pattern, upper(query)), common_words)

\* the index of the first pattern of ps that re.search finds in query, 0 if none
RECURSIVE first_match(_, _, _)
first_match(ps, query, k) ==
  IF k > Len(ps) THEN 0
  ELSE IF search(ps[k], query).found THEN k
  ELSE first_match(ps, query, k + 1)

\* the first category after position k of CategoryOrder, comparison skipped,
\* one of whose patterns matches; 0 if none
RECURSIVE first_category(_, _)
first_category(query, k) ==
  IF k > Len(CategoryOrder) THEN 0
  ELSE IF CategoryOrder[k] # "comparison"
          /\ first_match(query_patterns[CategoryOrder[k]], query, 1) # 0 THEN k
  ELSE first_category(query, k + 1)

parse_query(user_query) ==
  LET query == strip(lower(user_query))
      symbols == extract_symbols(query)
      cmp == first_match(query_patterns["comparison"], query, 1)
      cat == first_category(query, 1)
  IN  IF cmp # 0
      THEN LET match == search(query_patterns["comparison"][cmp], query)
           IN  [original_query |-> user_query,
                symbols |-> <<upper(match.groups.g1), upper(match.groups.g2)>>,
                query_type |-> "comparison"]
      ELSE IF cat # 0
      THEN LET analysis_type == CategoryOrder[cat]
               ps == query_patterns[analysis_type]
               match == search(ps[first_match(ps, query, 1)], query)
           IN  [original_query |-> user_query,
                symbols |-> IF symbols = <<>> /\ analysis_type = "stock_analysis"
                                 /\ match.groups.g1 # <<>>
                            THEN <<upper(match.groups.g1)>> ELSE symbols,
                query_type |-> analysis_type]
      ELSE [original_query |-> user_query,
            symbols |-> symbols,
            query_type |-> IF symbols # <<>> THEN "stock_analysis" ELSE "general_query"]

----------------------------------------------------------------------------
(* Tasks and the plans of TaskPlanner.create_task_plan                     *)

Task(task_type, tool_name, parameters, dependencies, task_id) ==
  [task_type |-> task_type, tool_name |-> tool_name, parameters |-> parameters,
   dependencies |-> dependencies, task_id |-> task_id]

\* the f-strings that name the tasks of a symbol
data_(symbol) == <<"d","a","t","a","_">> \o symbol
technical_(symbol) == <<"t","e","c","h","n","i","c","a","l","_">> \o symbol
signals_(symbol) == <<"s","i","g","n","a","l","s","_">> \o symbol
chart_(symbol) == <<"c","h","a","r","t","_">> \o symbol
technical_chart_(symbol) == <<"t","e","c","h","n","i","c","a","l","_","c","h","a","r","t","_">> \o symbol
backtest_(symbol) == <<"b","a","c","k","t","e","s","t","_">> \o symbol
performance_chart_(symbol) == <<"p","e","r","f","o","r","m","a","n","c","e","_","c","h","a","r","t","_">> \o symbol
price_chart_(symbol) == <<"p","r","i","c","e","_","c","h","a","r","t","_">> \o symbol
comparison_analysis == <<"c","o","m","p","a","r","i","s","o","n","_","a","n","a","l","y","s","i","s">>
comparison_chart == <<"c","o","m","p","a","r","i","s","o","n","_","c","h","a","r","t">>
pdf_report == <<"p","d","f","_","r","e","p","o","r","t">>

\* the concatenation of plan(symbol) over the symbols, in order
RECURSIVE Flatten(_)
Flatten(xss) == IF xss = <<>> THEN <<>> ELSE Head(xss) \o Flatten(Tail(xss))

ForEachSymbol(symbols, plan(_)) == Flatten([k \in 1..Len(symbols) |-> plan(symbols[k])])

\* a stock analysis whose chart waits for the signals instead of the indicators
stock_analysis_tasks_chart_after_signals(symbol) ==
  << Task("data_fetch", "stock_aggregator",
          [symbol |-> symbol, include_fundamentals |-> TRUE, include_news |-> TRUE],
          <<>>, data_(symbol)),
     Task("analysis", "technical_analyzer", [symbol |-> symbol],
          <<data_(symbol)>>, technical_(symbol)),
     Task("analysis", "trading_signals", [symbol |-> symbol],
          <<technical_(symbol)>>, signals_(symbol)),
     Task("visualization", "chart_generator",
          [chart_type |-> "technical_chart", symbol |-> symbol],
          <<signals_(symbol)>>, chart_(symbol)) >>

stock_analysis_tasks(symbol) ==
  << Task("data_fetch", "stock_aggregator",
          [symbol |-> symbol, include_fundamentals |-> TRUE, include_news |-> TRUE],
          <<>>, data_(symbol)),
     Task("analysis", "technical_analyzer", [symbol |-> symbol],
          <<data_(symbol)>>, technical_(symbol)),
     Task("analysis", "trading_signals", [symbol |-> symbol],
          <<technical_(symbol)>>, signals_(symbol)),
     Task("visualization", "chart_generator",
          [chart_type |-> "technical_chart", symbol |-> symbol],
          <<technical_(symbol)>>, chart_(symbol)) >>

create_stock_analysis_plan(symbols) == ForEachSymbol(symbols, stock_analysis_tasks)

stock_analysis_plan_of(symbol) == create_stock_analysis_plan(<<symbol>>)

\* a comparison plan that lists the comparison before the analyses it compares
create_comparison_plan_compare_first(symbols) ==
  << Task("analysis", "strategy_comparison", [symbols |-> symbols],
          [k \in 1..Len(symbols) |-> signals_(symbols[k])], comparison_analysis),
     Task("visualization", "chart_generator",
          [chart_type |-> "comparison_chart", symbols |-> symbols],
          <<comparison_analysis>>, comparison_chart) >>
  \o ForEachSymbol(symbols, stock_analysis_plan_of)

create_comparison_plan(symbols) ==
  ForEachSymbol(symbols, stock_analysis_plan_of)
  \o << Task("analysis", "strategy_comparison", [symbols |-> symbols],
             [k \in 1..Len(symbols) |-> signals_(symbols[k])], comparison_analysis),
        Task("visualization", "chart_generator",
             [chart_type |-> "comparison_chart", symbols |-> symbols],
             <<comparison_analysis>>, comparison_chart) >>

technical_analysis_tasks(symbol) ==
  << Task("data_fetch", "yahoo_finance", [symbol |-> symbol, period |-> "6mo"],
          <<>>, data_(symbol)),
     Task("analysis", "technical_analyzer",
          [symbol |-> symbol,
           indicators |-> <<"sma_20", "sma_50", "rsi", "macd", "bollinger_bands">>],
          <<data_(symbol)>>, technical_(symbol)),
     Task("visualization", "chart_generator",
          [chart_type |-> "technical_chart", symbol |-> symbol],
          <<technical_(symbol)>>, technical_chart_(symbol)) >>

create_technical_analysis_plan(symbols) == ForEachSymbol(symbols, technical_analysis_tasks)

backtesting_tasks(symbol) ==
  << Task("data_fetch", "yahoo_finance", [symbol |-> symbol, period |-> "2y"],
          <<>>, data_(symbol)),
     Task("analysis", "technical_analyzer", [symbol |-> symbol],
          <<data_(symbol)>>, technical_(symbol)),
     Task("analysis", "trading_signals", [symbol |-> symbol],
          <<technical_(symbol)>>, signals_(symbol)),
     Task("analysis", "simple_backtester", [symbol |-> symbol, initial_capital |-> 10000],
          <<signals_(symbol)>>, backtest_(symbol)),
     Task("visualization", "chart_generator",
          [chart_type |-> "performance_chart", symbol |-> symbol],
          <<backtest_(symbol)>>, performance_chart_(symbol)) >>

create_backtesting_plan(symbols) == ForEachSymbol(symbols, backtesting_tasks)

chart_tasks(symbol) ==
  << Task("data_fetch", "yahoo_finance", [symbol |-> symbol], <<>>, data_(symbol)),
     Task("visualization", "chart_generator",
          [chart_type |-> "price_chart", symbol |-> symbol],
          <<data_(symbol)>>, price_chart_(symbol)) >>

create_chart_plan(symbols) == ForEachSymbol(symbols, chart_tasks)

\* SessionMemory.get_recent_symbols: the slice symbols_analyzed[-count:]
get_recent_symbols(analyzed, count) ==
  SubSeq(analyzed, IF Len(analyzed) > count THEN Len(analyzed) - count + 1 ELSE 1,
         Len(analyzed))

create_reporting_plan(analyzed) ==
  LET recent_symbols == get_recent_symbols(analyzed, 3)
  IN  IF recent_symbols # <<>>
      THEN << Task("reporting", "pdf_report_generator",
                   [symbols |-> recent_symbols,
                    report_title |-> "Investment Analysis Report"],
                   <<>>, pdf_report) >>
      ELSE <<>>

\* create_task_plan, reading the session memory's symbols_analyzed
create_task_plan(query_info, analyzed) ==
  LET query_type == query_info.query_type
      symbols == query_info.symbols
      recent_symbols == get_recent_symbols(analyzed, 1)
  IN  CASE query_type = "stock_analysis" -> create_stock_analysis_plan(symbols)
        [] query_type = "comparison" -> create_comparison_plan(symbols)
        [] query_type = "technical_analysis" ->
             IF symbols # <<>> THEN create_technical_analysis_plan(symbols)
             ELSE IF recent_symbols # <<>>
             THEN create_technical_analysis_plan(recent_symbols) ELSE <<>>
        [] query_type = "backtesting" ->
             IF symbols # <<>> THEN create_backtesting_plan(symbols)
             ELSE IF recent_symbols # <<>>
             THEN create_backtesting_plan(recent_symbols) ELSE <<>>
        [] query_type = "chart_request" ->
             IF symbols # <<>> THEN create_chart_plan(symbols)
             ELSE IF recent_symbols # <<>>
             THEN create_chart_plan(recent_symbols) ELSE <<>>
        [] query_type = "reporting" -> create_reporting_plan(analyzed)
        [] OTHER -> <<>>

----------------------------------------------------------------------------
(* The inputs of the query interpreter: texts of up to MaxWords words of a *)
(* vocabulary, separated by one space, and a few texts written out         *)

MaxWords == 3

Vocabulary ==
  {<<"A","A","P","L">>,
   <<"M","S","F","T">>,
   <<"v","s">>,
   <<"a","n","d">>,
   <<"t","h","e">>,
   <<"b","a","c","k","t","e","s","t">>,
   <<"A","1">>,
   <<"r","s","i">>}

RECURSIVE Join(_)
Join(ws) ==
  IF Len(ws) = 0 THEN <<>>
  ELSE IF Len(ws) = 1 THEN ws[1]
  ELSE ws[1] \o <<" ">> \o Join(Tail(ws))

ExtraTexts ==
  {<<>>,
   <<" ","A","A","P","L"," "," ","v","s"," "," ","M","S","F","T"," ">>,
   <<"c","o","m","p","a","r","e"," ","A","A","P","L"," ","a","n","d"," ","M","S","F","T">>,
   <<"d","i","f","f","e","r","e","n","c","e"," ","b","e","t","w","e","e","n"," ","A","A","P","L"," ","a","n","d"," ","M","S","F","T">>,
   <<"a","a","p","l"," ","v","e","r","s","u","s"," ","m","s","f","t">>,
   <<"t","e","l","l"," ","m","e"," ","a","b","o","u","t"," ","A","A","P","L">>,
   <<"r","e","s","e","a","r","c","h">>,
   <<"G","O","O","G","L","E">>,
   <<"A","A","P","L","-","M","S","F","T">>,
   <<"g","e","n","e","r","a","t","e"," ","r","e","p","o","r","t">>,
   <<"p","l","o","t"," ","c","h","a","r","t">>,
   <<"r","e","s","e","a","r","c","h"," ","A","A","P","L"," ","r","s","i">>}

Texts ==
  {Join(ws) : ws \in UNION {[1..n -> Vocabulary] : n \in 1..MaxWords}} \cup ExtraTexts


----------------------------------------------------------------------------
(* Tool results, the capability registry and the session memory            *)

None == "None"

\* ToolResult(success, data, error); an error text is a tuple of its parts
ToolResult(success, data, error) == [success |-> success, data |-> data, error |-> error]

\* the names under which InvestmentAdvisorCLI.setup_tools registers tools
Registry ==
  {"yahoo_finance", "alpha_vantage", "finnhub", "stock_aggregator",
   "technical_analyzer", "trading_signals", "simple_backtester",
   "strategy_comparison", "risk_analyzer",
   "chart_generator", "pdf_report_generator", "powerpoint_generator"}

\* a get_tool that gives a tool for every name
get_tool_any(name) == name

\* ToolRegistry.get_tool: the tool, or None
get_tool(name) == IF name \in Registry THEN name ELSE None

\* a dict with key k set to v
Put(d, k, v) == [x \in DOMAIN d \cup {k} |-> IF x = k THEN v ELSE d[x]]
EmptyDict == <<>>

Range(xs) == {xs[k] : k \in 1..Len(xs)}

\* SessionMemory.remember_symbol on symbols_analyzed
remember_symbol(analyzed, symbol) ==
  IF symbol \notin Range(analyzed) THEN Append(analyzed, symbol) ELSE analyzed

\* SessionMemory.store_analysis_result on last_analysis_results, at time ts
store_analysis_result(stored, symbol, analysis_type, result, ts) ==
  LET of_symbol == IF symbol \notin DOMAIN stored THEN EmptyDict ELSE stored[symbol]
  IN  Put(stored, symbol, Put(of_symbol, analysis_type, [result |-> result, timestamp |-> ts]))

\* what tool.execute(**params) can do: return a success with a payload, return
\* a failure with a reason, or raise an Exception
Payloads ==
  {[historical_data |-> "series"],   \* what a fetch returns (stock_data.py:29-33)
   [rsi |-> "values"],               \* what the technical analyzer returns
   [final_value |-> "value"]}        \* another shape: what the backtester returns
ToolOutcomes ==
  {[raised |-> FALSE, result |-> ToolResult(TRUE, p, <<>>)] : p \in Payloads}
  \cup {[raised |-> FALSE, result |-> ToolResult(FALSE, None, <<"no data">>)],
        [raised |-> TRUE, message |-> "fault"]}

----------------------------------------------------------------------------
(* TaskExecutor                                                            *)

\* a can_execute that does not look at the dependencies
can_execute_unordered(task, done) == TRUE

\* can_execute of _sort_tasks_by_dependencies
can_execute(task, done) == \A k \in 1..Len(task.dependencies) : task.dependencies[k] \in done

\* a pass that goes through tasks from the end
RECURSIVE last_executable(_, _, _)
last_executable(ts, done, k) ==
  IF k > Len(ts) THEN 0
  ELSE LET later == last_executable(ts, done, k + 1)
       IN  IF later # 0 THEN later
           ELSE IF ts[k].task_id \notin done /\ can_execute(ts[k], done) THEN k ELSE 0

\* one pass of the for loop of _sort_tasks_by_dependencies: the position of the
\* first task that is not completed and can execute, 0 if the pass ends without one
RECURSIVE first_executable(_, _, _)
first_executable(ts, done, k) ==
  IF k > Len(ts) THEN 0
  ELSE IF ts[k].task_id \notin done /\ can_execute(ts[k], done) THEN k
  ELSE first_executable(ts, done, k + 1)

\* the params _execute_task passes to the tool: the task's parameters and, when a
\* dependency has a successful result, dependency_data with the data of each such
\* dependency
RECURSIVE dependency_data(_, _, _)
dependency_data(deps, results, k) ==
  IF k > Len(deps) THEN EmptyDict
  ELSE LET rest == dependency_data(deps, results, k + 1)
       IN  IF deps[k] \in DOMAIN results /\ results[deps[k]].success
              /\ deps[k] \notin DOMAIN rest
           THEN Put(rest, deps[k], results[deps[k]].data) ELSE rest

prepare_params(task, results) ==
  LET dd == dependency_data(task.dependencies, results, 1)
  IN  IF dd = EmptyDict THEN task.parameters
      ELSE Put(task.parameters, "dependency_data", dd)

\* a memory update that does not look at result.success
memory_after_any_result(task, params, result, analyzed, stored, ts) ==
  IF "symbol" \in DOMAIN params
  THEN [symbols_analyzed |-> remember_symbol(analyzed, params.symbol),
        last_analysis_results |->
          store_analysis_result(stored, params.symbol, task.tool_name, result.data, ts)]
  ELSE [symbols_analyzed |-> analyzed, last_analysis_results |-> stored]

\* the session memory after a tool returned result: on success, the symbol of
\* params is remembered and the data stored under it and the tool's name
memory_after(task, params, result, analyzed, stored, ts) ==
  IF result.success /\ "symbol" \in DOMAIN params
  THEN [symbols_analyzed |-> remember_symbol(analyzed, params.symbol),
        last_analysis_results |->
          store_analysis_result(stored, params.symbol, task.tool_name, result.data, ts)]
  ELSE [symbols_analyzed |-> analyzed, last_analysis_results |-> stored]

\* an except clause that raises the Exception again
on_exception_reraises(message) ==
  [raises |-> TRUE,
   result |-> ToolResult(FALSE, None, <<"Task execution failed: ", message>>)]

\* the except clause of _execute_task: the Exception becomes a failure result
\* and does not leave _execute_task
on_exception(message) ==
  [raises |-> FALSE,
   result |-> ToolResult(FALSE, None, <<"Task execution failed: ", message>>)]

\* _execute_task: the result (or that an exception leaves it), the session memory
\* after it, and whether the tool was invoked; outcome is what the tool does if
\* it is invoked, ts the time of the call
execute_task(task, results, analyzed, stored, outcome, ts) ==
  LET tool == get_tool(task.tool_name)
      params == prepare_params(task, results)
      unchanged == [symbols_analyzed |-> analyzed, last_analysis_results |-> stored]
  IN  IF tool = None
      THEN [raises |-> FALSE,
            result |-> ToolResult(FALSE, None,
                                  <<"Tool ", task.tool_name, " not found in registry">>),
            memory |-> unchanged, invoked |-> FALSE, params |-> task.parameters]
      ELSE IF outcome.raised
      THEN [raises |-> on_exception(outcome.message).raises,
            result |-> on_exception(outcome.message).result,
            memory |-> unchanged, invoked |-> TRUE, params |-> params]
      ELSE [raises |-> FALSE,
            result |-> outcome.result,
            memory |-> memory_after(task, params, outcome.result, analyzed, stored, ts),
            invoked |-> TRUE, params |-> params]

----------------------------------------------------------------------------
(* simple_reasoning.py: the executor that runs the tasks in list order     *)

\* the params of simple_reasoning's _execute_task: the task's parameters, with
\* the series of a fetch dependency as 'data' and the data of an indicator
\* dependency as 'technical_data'; a later dependency overwrites an earlier
\* one. The data of a successful result is a dict that is not empty.
RECURSIVE simple_prepare_params(_, _, _, _)
simple_prepare_params(params, deps, results, k) ==
  IF k > Len(deps) THEN params
  ELSE LET dep_id == deps[k]
           merged ==
             IF dep_id \in DOMAIN results /\ results[dep_id].success
             THEN LET data == results[dep_id].data
                  IN  IF "historical_data" \in DOMAIN data
                      THEN Put(params, "data", data.historical_data)
                      ELSE IF DOMAIN data \cap {"sma_20", "rsi", "macd"} # {}
                      THEN Put(params, "technical_data", data)
                      ELSE params
             ELSE params
       IN  simple_prepare_params(merged, deps, results, k + 1)

\* simple_reasoning's _execute_task: the result, the remembered symbols after
\* it and whether the tool was invoked
simple_execute_task(task, results, analyzed, outcome) ==
  LET tool == get_tool(task.tool_name)
      params == simple_prepare_params(task.parameters, task.dependencies, results, 1)
  IN  IF tool = None
      THEN [result |-> ToolResult(FALSE, None,
                                  <<"Tool ", task.tool_name, " not found in registry">>),
            symbols_analyzed |-> analyzed, invoked |-> FALSE, params |-> params]
      ELSE IF outcome.raised
      THEN [result |-> ToolResult(FALSE, None,
                                  <<"Task execution failed: ", outcome.message>>),
            symbols_analyzed |-> analyzed, invoked |-> TRUE, params |-> params]
      ELSE [result |-> outcome.result,
            symbols_analyzed |->
              IF outcome.result.success /\ "symbol" \in DOMAIN params
              THEN remember_symbol(analyzed, params.symbol) ELSE analyzed,
            invoked |-> TRUE, params |-> params]

\* simple_reasoning's execute_plan from task k on: for task in tasks, in the
\* order of the list; outcome_at[k] is what the tool of task k does
RECURSIVE simple_execute_from(_, _, _, _)
simple_execute_from(ts, outcome_at, k, run) ==
  IF k > Len(ts) THEN run
  ELSE LET one == simple_execute_task(ts[k], run.execution_results, run.symbols_analyzed,
                                      outcome_at[k])
       IN  simple_execute_from(ts, outcome_at, k + 1,
             [execution_results |-> Put(run.execution_results, ts[k].task_id, one.result),
              symbols_analyzed |-> one.symbols_analyzed,
              invocations |->
                IF one.invoked
                THEN Append(run.invocations,
                            [task |-> k, tool_name |-> ts[k].tool_name, params |-> one.params])
                ELSE run.invocations])

\* self.execution_results.clear(), then the loop
simple_execute_plan(ts, outcome_at, analyzed) ==
  simple_execute_from(ts, outcome_at, 1,
    [execution_results |-> EmptyDict, symbols_analyzed |-> analyzed, invocations |-> <<>>])

----------------------------------------------------------------------------
(* The task lists handed to execute_plan directly: every list of up to     *)
(* MaxTasks tasks drawn from three templates (an id may repeat), with any  *)
(* dependency ids of the pool, up to MaxDeps dependency references in all  *)

MaxTasks == 3
MaxDeps == 2
MaxPlans == 2

AAPL == <<"A","A","P","L">>
MSFT == <<"M","S","F","T">>

\* a registered tool with a symbol, a registered tool without one, and a tool
\* that is not registered
Templates ==
  << [task_id |-> <<"a">>, task_type |-> "analysis", tool_name |-> "technical_analyzer",
      parameters |-> [symbol |-> AAPL]],
     [task_id |-> <<"b">>, task_type |-> "visualization", tool_name |-> "chart_generator",
      parameters |-> [chart_type |-> "comparison_chart"]],
     [task_id |-> <<"c">>, task_type |-> "analysis", tool_name |-> "sentiment_analyzer",
      parameters |-> [symbol |-> MSFT]] >>

IdPool == [k \in 1..Len(Templates) |-> Templates[k].task_id]

\* the ids of the set S, as a list in pool order
RECURSIVE InPoolOrder(_, _)
InPoolOrder(S, k) ==
  IF k > Len(IdPool) THEN <<>>
  ELSE (IF IdPool[k] \in S THEN <<IdPool[k]>> ELSE <<>>) \o InPoolOrder(S, k + 1)

IdsOf(ts) == {ts[k].task_id : k \in 1..Len(ts)}

RECURSIVE RefCount(_)
RefCount(ts) == IF ts = <<>> THEN 0 ELSE Len(Head(ts).dependencies) + RefCount(Tail(ts))

NextTasks(ts) ==
  { Task(Templates[i].task_type, Templates[i].tool_name, Templates[i].parameters,
         InPoolOrder(D, 1), Templates[i].task_id) :
      i \in 1..Len(Templates),
      D \in {D \in SUBSET Range(IdPool) : Cardinality(D) + RefCount(ts) <= MaxDeps} }

RECURSIVE TaskListsOfLen(_)
TaskListsOfLen(n) ==
  IF n = 0 THEN {<<>>}
  ELSE UNION { {Append(ts, task) : task \in NextTasks(ts)} : ts \in TaskListsOfLen(n - 1) }

\* the lists, by length
TaskLists == [n \in 0..MaxTasks |-> TaskListsOfLen(n)]

\* what the claims about execute_plan assume of a list
DistinctIds(ts) == \A j, k \in 1..Len(ts) : j # k => ts[j].task_id # ts[k].task_id
ValidDeps(ts) == \A k \in 1..Len(ts) : Range(ts[k].dependencies) \subseteq IdsOf(ts)

\* the ids that id depends on, directly or through other tasks, within n steps
RECURSIVE Upstream(_, _, _)
Upstream(ts, ids, n) ==
  LET direct == UNION {Range(ts[k].dependencies) : k \in {j \in 1..Len(ts) : ts[j].task_id \in ids}}
  IN  IF n = 0 THEN {} ELSE direct \cup Upstream(ts, direct, n - 1)

Acyclic(ts) == \A k \in 1..Len(ts) : ts[k].task_id \notin Upstream(ts, {ts[k].task_id}, Len(ts))
ValidPlan(ts) == DistinctIds(ts) /\ ValidDeps(ts) /\ Acyclic(ts)

----------------------------------------------------------------------------
(* State                                                                   *)

VARIABLES
  pc,                     \* where the caller is: idle, parsed, planned, sort, exec, raised
  user_query,             \* the text given to parse_query
  query_info,             \* what parse_query returned
  tasks,                  \* the task list in hand
  sorted_tasks,           \* _sort_tasks_by_dependencies: positions in tasks, in order
  completed,              \* _sort_tasks_by_dependencies: the ids sorted so far
  execution_results,      \* TaskExecutor.execution_results
  executed,               \* the positions in tasks given to _execute_task, in order
  invocations,            \* the tool.execute calls made and what each did, in order
  symbols_analyzed,       \* SessionMemory.session_data['symbols_analyzed']
  last_analysis_results,  \* SessionMemory.session_data['last_analysis_results']
  now,                    \* the clock datetime.now() reads
  submitted,              \* how many tasks have been handed to execute_plan
  plans,                  \* how many execute_plan calls have returned
  parse_log,              \* what each parse_query call was given and returned, in order
  backtest_args,          \* the arguments of SimpleBacktester.execute
  portfolio,              \* the portfolio DataFrame SimpleBacktester.execute builds
  comparison_args,        \* the results dict StrategyComparison ranks and summarises
  ranking,                \* what rank_strategies returned
  comparison_summary,     \* what create_comparison_summary returned
  signal_args,            \* the arguments of TradingSignals.execute
  trading_signals,        \* the signals dict TradingSignals.execute builds
  rsi_args,               \* the arguments of TechnicalAnalyzer.calculate_rsi
  rsi                     \* the series calculate_rsi returned

vars ==
  <<pc, user_query, query_info, tasks, sorted_tasks, completed, execution_results,
    executed, invocations, symbols_analyzed, last_analysis_results, now, submitted, plans,
    parse_log, backtest_args, portfolio, comparison_args, ranking, comparison_summary,
    signal_args, trading_signals, rsi_args, rsi>>

backtest_vars == <<backtest_args, portfolio>>
comparison_vars == <<comparison_args, ranking, comparison_summary>>
technical_vars == <<signal_args, trading_signals, rsi_args, rsi>>
tool_vars == <<backtest_vars, comparison_vars, technical_vars>>

planner_vars == <<user_query, query_info>>
executor_vars == <<sorted_tasks, completed, execution_results, executed, invocations>>
memory_vars == <<symbols_analyzed, last_analysis_results, now>>

NoQuery == [original_query |-> <<>>, symbols |-> <<>>, query_type |-> None]

\* no query has been made and no plan has been run
EngineAtRest ==
  /\ user_query = <<>>
  /\ query_info = NoQuery
  /\ tasks = <<>>
  /\ sorted_tasks = <<>>
  /\ completed = {}
  /\ execution_results = EmptyDict
  /\ executed = <<>>
  /\ invocations = <<>>
  /\ symbols_analyzed = <<>>
  /\ last_analysis_results = EmptyDict
  /\ now = 0
  /\ submitted = 0
  /\ plans = 0
  /\ parse_log = <<>>

engine_vars ==
  <<planner_vars, tasks, executor_vars, memory_vars, submitted, plans, parse_log>>

\* TaskExecutor.__init__, SessionMemory.__init__, before any query
Init ==
  /\ pc = "idle"
  /\ user_query = <<>>
  /\ query_info = NoQuery
  /\ tasks = <<>>
  /\ sorted_tasks = <<>>
  /\ completed = {}
  /\ execution_results = EmptyDict
  /\ executed = <<>>
  /\ invocations = <<>>
  /\ symbols_analyzed = <<>>
  /\ last_analysis_results = EmptyDict
  /\ now = 0
  /\ submitted = 0
  /\ plans = 0
  /\ parse_log = <<>>
  /\ backtest_args = None
  /\ portfolio = None
  /\ comparison_args = None /\ ranking = None /\ comparison_summary = None
  /\ signal_args = None /\ trading_signals = None
  /\ rsi_args = None /\ rsi = None

----------------------------------------------------------------------------
(* TaskExecutor.execute_plan, a step at a time                             *)

\* an execute_plan that does not clear execution_results
ExecutePlan_KeepsResults(ts) ==
  /\ pc \in {"idle", "planned"}
  /\ tasks' = ts
  /\ sorted_tasks' = <<>>
  /\ completed' = {}
  /\ executed' = <<>>
  /\ invocations' = <<>>
  /\ submitted' = submitted + Len(ts)
  /\ pc' = "sort"
  /\ UNCHANGED <<tool_vars, planner_vars, execution_results, memory_vars, plans, parse_log>>

\* the call: execution_results.clear(), then _sort_tasks_by_dependencies starts
ExecutePlan(ts) ==
  /\ pc \in {"idle", "planned"}
  /\ tasks' = ts
  /\ execution_results' = EmptyDict
  /\ sorted_tasks' = <<>>
  /\ completed' = {}
  /\ executed' = <<>>
  /\ invocations' = <<>>
  /\ submitted' = submitted + Len(ts)
  /\ pc' = "sort"
  /\ UNCHANGED <<tool_vars, planner_vars, memory_vars, plans, parse_log>>

\* one iteration of the while loop: a pass of the for loop over tasks, which
\* appends the first executable task and breaks, or ends having found none
SortScan ==
  /\ pc = "sort"
  /\ Len(sorted_tasks) < Len(tasks)
  /\ LET k == first_executable(tasks, completed, 1)
     IN  IF k # 0
         THEN /\ sorted_tasks' = Append(sorted_tasks, k)
              /\ completed' = completed \cup {tasks[k].task_id}
         ELSE UNCHANGED <<sorted_tasks, completed>>
  /\ UNCHANGED <<tool_vars, pc, planner_vars, tasks, execution_results, executed, invocations,
                 memory_vars, submitted, plans, parse_log>>

\* the while loop ends: _sort_tasks_by_dependencies returns sorted_tasks
SortReturn ==
  /\ pc = "sort"
  /\ Len(sorted_tasks) >= Len(tasks)
  /\ pc' = "exec"
  /\ UNCHANGED <<tool_vars, planner_vars, tasks, executor_vars, memory_vars, submitted, plans, parse_log>>

\* one iteration of the for loop of execute_plan: _execute_task on the next
\* sorted task, its result put in execution_results; an exception that left
\* _execute_task would leave execute_plan too
ExecuteTaskWith(outcomes) ==
  /\ pc = "exec"
  /\ Len(executed) < Len(sorted_tasks)
  /\ \E outcome \in outcomes :
       LET k == sorted_tasks[Len(executed) + 1]
           task == tasks[k]
           run == execute_task(task, execution_results, symbols_analyzed,
                               last_analysis_results, outcome, now + 1)
       IN  /\ executed' = Append(executed, k)
           /\ invocations' =
                IF run.invoked
                THEN Append(invocations,
                            [task |-> k, tool_name |-> task.tool_name,
                             params |-> run.params, outcome |-> outcome])
                ELSE invocations
           /\ symbols_analyzed' = run.memory.symbols_analyzed
           /\ last_analysis_results' = run.memory.last_analysis_results
           /\ IF run.raises
              THEN pc' = "raised" /\ UNCHANGED execution_results
              ELSE /\ pc' = pc
                   /\ execution_results' = Put(execution_results, task.task_id, run.result)
  /\ now' = now + 1
  /\ UNCHANGED <<tool_vars, planner_vars, tasks, sorted_tasks, completed, submitted, plans, parse_log>>

\* the tools do whatever a tool can do
ExecuteTask == ExecuteTaskWith(ToolOutcomes)

\* an execute_plan whose for loop breaks at a failed task
ReturnResults_OnFailure ==
  /\ pc = "exec"
  /\ \/ Len(executed) >= Len(sorted_tasks)
     \/ /\ executed # <<>>
        /\ ~execution_results[tasks[executed[Len(executed)]].task_id].success
  /\ pc' = "idle"
  /\ plans' = plans + 1
  /\ UNCHANGED <<tool_vars, planner_vars, tasks, executor_vars, memory_vars, submitted,
                 parse_log>>

\* what a caller that kept the dict the i-th call returned reads in it now:
\* execute_plan returns self.execution_results, the one dict the executor
\* makes in __init__, clears at each call and fills, not a copy of it
held_results(i) == execution_results

\* the for loop ends: execute_plan returns execution_results
ReturnResults ==
  /\ pc = "exec"
  /\ Len(executed) >= Len(sorted_tasks)
  /\ pc' = "idle"
  /\ plans' = plans + 1
  /\ UNCHANGED <<tool_vars, planner_vars, tasks, executor_vars, memory_vars, submitted,
                 parse_log>>

ExecNext ==
  \/ /\ plans < MaxPlans
     /\ \E n \in 0..(MaxTasks - submitted) : \E ts \in TaskLists[n] : ExecutePlan(ts)
  \/ SortScan
  \/ SortReturn
  \/ ExecuteTask
  \/ ReturnResults

\* the executor, given task lists directly
SpecExec == Init /\ [][ExecNext]_vars


----------------------------------------------------------------------------
(* TaskPlanner.parse_query and create_task_plan, on the texts              *)

\* a parse_query that falls back on the session memory for the symbols a text
\* does not give, as the plans of create_task_plan do
ParseQuery_RecentSymbols(text) ==
  LET info == parse_query(text)
      filled == IF info.symbols = <<>>
                THEN [info EXCEPT !.symbols = get_recent_symbols(symbols_analyzed, 1)]
                ELSE info
  IN  /\ user_query' = text
      /\ query_info' = filled
      /\ parse_log' = Append(parse_log, [user_query |-> text,
                                         query_info |-> filled,
                                         symbols_analyzed |-> symbols_analyzed,
                                         plans |-> plans])
      /\ pc' = "parsed"
      /\ UNCHANGED <<tool_vars, tasks, executor_vars, memory_vars, submitted, plans>>

ParseQuery(text) ==
  /\ user_query' = text
  /\ query_info' = parse_query(text)
  /\ parse_log' = Append(parse_log, [user_query |-> text,
                                     query_info |-> parse_query(text),
                                     symbols_analyzed |-> symbols_analyzed,
                                     plans |-> plans])
  /\ pc' = "parsed"
  /\ UNCHANGED <<tool_vars, tasks, executor_vars, memory_vars, submitted, plans>>

CreateTaskPlan ==
  /\ pc = "parsed"
  /\ tasks' = create_task_plan(query_info, symbols_analyzed)
  /\ pc' = "planned"
  /\ UNCHANGED <<tool_vars, planner_vars, executor_vars, memory_vars, submitted, plans, parse_log>>

ParseNext ==
  \/ pc = "idle" /\ \E text \in Texts : ParseQuery(text)
  \/ CreateTaskPlan

\* the query interpreter and the task graph builder, given texts
SpecParse == Init /\ [][ParseNext]_vars

----------------------------------------------------------------------------
(* InvestmentAdvisorCLI.process_query, query after query: parse_query,     *)
(* create_task_plan, and execute_plan on the plan unless it is empty; the  *)
(* results are a local of process_query, gone when it returns              *)

MaxQueries == 3

\* what the user types
SessionTexts ==
  {<<"A","A","P","L">>,
   <<"A","A","P","L"," ","A","A","P","L">>,
   <<"b","a","c","k","t","e","s","t">>}

\* what a tool call does in a session: it returns data or it returns a failure
SessionOutcomes ==
  {[raised |-> FALSE, result |-> ToolResult(TRUE, [historical_data |-> "series"], <<>>)],
   [raised |-> FALSE, result |-> ToolResult(FALSE, None, <<"no data">>)]}

\* if not tasks: return "I'm not sure how to help with that. ..."
NoTasks ==
  /\ pc = "planned"
  /\ tasks = <<>>
  /\ pc' = "idle"
  /\ UNCHANGED <<tool_vars, planner_vars, tasks, executor_vars, memory_vars, submitted,
                 plans, parse_log>>

SessionNext ==
  \/ /\ pc = "idle"
     /\ Len(parse_log) < MaxQueries
     /\ \E text \in SessionTexts : ParseQuery(text)
  \/ CreateTaskPlan
  \/ NoTasks
  \/ pc = "planned" /\ tasks # <<>> /\ ExecutePlan(tasks)
  \/ SortScan
  \/ SortReturn
  \/ ExecuteTaskWith(SessionOutcomes)
  \/ ReturnResults

\* a session of queries
SpecSession == Init /\ [][SessionNext]_vars

----------------------------------------------------------------------------
(* TaskPlanner.create_task_plan on a classification, reading a session     *)
(* memory that earlier executions have filled                              *)

MaxHistory == 5
MaxQuerySymbols == 2

GOOG == <<"G","O","O","G">>
TSLA == <<"T","S","L","A">>

\* the symbols of the tasks executed before the plan is made
SessionSymbols == {AAPL, MSFT, GOOG, TSLA}

\* the executions that filled the memory: the symbols of the tasks that
\* succeeded, in the order of their execution
Histories == UNION {[1..n -> SessionSymbols] : n \in 0..MaxHistory}

\* a tool call that returns a success
Succeeds == CHOOSE outcome \in ToolOutcomes : ~outcome.raised /\ outcome.result.success

\* the session memory after _execute_task has run the fetch task of each symbol
\* of the history, each with success, at the times 1, 2, ...
RECURSIVE MemoryAfter(_)
MemoryAfter(history) ==
  IF history = <<>>
  THEN [symbols_analyzed |-> <<>>, last_analysis_results |-> EmptyDict]
  ELSE LET n == Len(history)
           before == MemoryAfter(SubSeq(history, 1, n - 1))
       IN  execute_task(chart_tasks(history[n])[1], EmptyDict, before.symbols_analyzed,
                        before.last_analysis_results, Succeeds, n).memory

\* the classifications given to create_task_plan: every query type, with every
\* list of up to MaxQuerySymbols symbols
QueryTypes == Range(CategoryOrder) \cup {"general_query"}

QueryInfos ==
  { [original_query |-> <<>>, symbols |-> symbols, query_type |-> query_type] :
      query_type \in QueryTypes,
      symbols \in UNION {[1..n -> {AAPL, MSFT}] : n \in 0..MaxQuerySymbols} }

\* a classification is in hand, the memory is what a history left
InitPlan ==
  /\ \E history \in Histories :
       /\ symbols_analyzed = MemoryAfter(history).symbols_analyzed
       /\ last_analysis_results = MemoryAfter(history).last_analysis_results
       /\ now = Len(history)
  /\ pc = "parsed"
  /\ user_query = <<>>
  /\ query_info \in QueryInfos
  /\ tasks = <<>>
  /\ sorted_tasks = <<>>
  /\ completed = {}
  /\ execution_results = EmptyDict
  /\ executed = <<>>
  /\ invocations = <<>>
  /\ submitted = 0
  /\ plans = 0
  /\ parse_log = <<>>
  /\ backtest_args = None
  /\ portfolio = None
  /\ comparison_args = None /\ ranking = None /\ comparison_summary = None
  /\ signal_args = None /\ trading_signals = None
  /\ rsi_args = None /\ rsi = None

PlanNext == CreateTaskPlan

\* the task graph builder, given classifications and session memories
SpecPlan == InitPlan /\ [][PlanNext]_vars

----------------------------------------------------------------------------
(* execute_plan on the plans of create_task_plan: a classification is in   *)
(* hand, the memory is what earlier executions left                        *)

\* the memories: nothing analysed yet, AAPL analysed, AAPL and then MSFT
PlanHistories == {SubSeq(<<AAPL, MSFT>>, 1, n) : n \in 0..2}

InitPlanned ==
  /\ \E history \in PlanHistories :
       /\ symbols_analyzed = MemoryAfter(history).symbols_analyzed
       /\ last_analysis_results = MemoryAfter(history).last_analysis_results
       /\ now = Len(history)
  /\ pc = "parsed"
  /\ user_query = <<>>
  /\ query_info \in QueryInfos
  /\ tasks = <<>>
  /\ sorted_tasks = <<>>
  /\ completed = {}
  /\ execution_results = EmptyDict
  /\ executed = <<>>
  /\ invocations = <<>>
  /\ submitted = 0
  /\ plans = 0
  /\ parse_log = <<>>
  /\ backtest_args = None /\ portfolio = None
  /\ comparison_args = None /\ ranking = None /\ comparison_summary = None
  /\ signal_args = None /\ trading_signals = None
  /\ rsi_args = None /\ rsi = None

PlannedNext ==
  \/ CreateTaskPlan
  \/ NoTasks
  \/ pc = "planned" /\ tasks # <<>> /\ plans = 0 /\ ExecutePlan(tasks)
  \/ SortScan
  \/ SortReturn
  \/ ExecuteTaskWith(SessionOutcomes)
  \/ ReturnResults

\* the executor, given the plans of the task graph builder
SpecPlanned == InitPlanned /\ [][PlannedNext]_vars

----------------------------------------------------------------------------
(* SimpleBacktester.execute. Prices, signals and the columns derived from  *)
(* them are whole numbers of currency units; the commission rate is given  *)
(* in thousandths, so the commission and the total after commission are in *)
(* thousandths of a unit. A column entry is a number or NaN.               *)

MaxPeriods == 4

\* the default commission 0.001 is one part in PerMille
PerMille == 1000
DefaultCapital == 10000

NaN == [nan |-> TRUE, v |-> 0]
Num(v) == [nan |-> FALSE, v |-> v]

Abs(x) == IF x < 0 THEN -x ELSE x

\* arithmetic on entries: NaN in, NaN out
Add(a, b) == IF a.nan \/ b.nan THEN NaN ELSE Num(a.v + b.v)
Sub(a, b) == IF a.nan \/ b.nan THEN NaN ELSE Num(a.v - b.v)
Mul(a, b) == IF a.nan \/ b.nan THEN NaN ELSE Num(a.v * b.v)

\* the column of a list of numbers
Column(xs) == [t \in 1..Len(xs) |-> Num(xs[t])]

\* Series.diff(): the first entry has no predecessor and is NaN
diff(col) == [t \in 1..Len(col) |-> IF t = 1 THEN NaN ELSE Sub(col[t], col[t - 1])]

\* Series.cumsum(): the running sum skips a NaN entry and leaves NaN in its place
RECURSIVE SumTo(_, _)
SumTo(col, t) ==
  IF t = 0 THEN 0 ELSE SumTo(col, t - 1) + (IF col[t].nan THEN 0 ELSE col[t].v)

cumsum(col) == [t \in 1..Len(col) |-> IF col[t].nan THEN NaN ELSE Num(SumTo(col, t))]

\* Series.pct_change(): the change from the previous entry as the fraction
\* num / den; NaN where the entry or its predecessor is NaN (a leading NaN is
\* not filled)
pct_change(col) ==
  [t \in 1..Len(col) |->
     IF t = 1 \/ col[t].nan \/ col[t - 1].nan
     THEN [nan |-> TRUE, num |-> 0, den |-> 1]
     ELSE [nan |-> FALSE, num |-> col[t].v - col[t - 1].v, den |-> col[t - 1].v]]

\* a simulator that values the position held at the price of the period
execute_marked_to_market(data, signals, initial_capital, commission) ==
  LET price == Column(data)
      periods == 1..Len(data)
      positions == diff(Column(signals))
      traded == [t \in periods |-> Mul(positions[t], price[t])]
      holdings == [t \in periods |->
                     IF positions[t].nan THEN NaN ELSE Num(signals[t] * data[t])]
      cash == [t \in periods |-> Sub(Num(initial_capital), cumsum(traded)[t])]
      total == [t \in periods |-> Add(cash[t], holdings[t])]
      returns == pct_change(total)
      charged == [t \in periods |->
                    IF positions[t].nan THEN NaN
                    ELSE Num(Abs(positions[t].v) * price[t].v * commission)]
  IN  [price |-> price,
       signals |-> Column(signals),
       positions |-> positions,
       holdings |-> holdings,
       cash |-> cash,
       returns |-> returns,
       commission |-> charged,
       total |-> [t \in periods |-> Sub(Mul(total[t], Num(PerMille)), cumsum(charged)[t])]]

\* the portfolio that execute builds; commission is the rate in thousandths
execute(data, signals, initial_capital, commission) ==
  LET price == Column(data)
      periods == 1..Len(data)
      positions == diff(Column(signals))
      traded == [t \in periods |-> Mul(positions[t], price[t])]
      holdings == cumsum(traded)
      cash == [t \in periods |-> Sub(Num(initial_capital), cumsum(traded)[t])]
      total == [t \in periods |-> Add(cash[t], holdings[t])]
      returns == pct_change(total)
      charged == [t \in periods |->
                    IF positions[t].nan THEN NaN
                    ELSE Num(Abs(positions[t].v) * price[t].v * commission)]
  IN  [price |-> price,
       signals |-> Column(signals),
       positions |-> positions,
       holdings |-> holdings,
       cash |-> cash,
       returns |-> returns,
       commission |-> charged,
       total |-> [t \in periods |-> Sub(Mul(total[t], Num(PerMille)), cumsum(charged)[t])]]

\* round(x, 2) of the quotient num / den of hundredths, den positive: the
\* nearest whole number of hundredths; at an exact half the binary value of
\* the quotient decides, so either neighbour
round_hundredths(num, den) ==
  LET q == num \div den
      r == num % den
  IN  IF 2 * r < den THEN {q}
      ELSE IF 2 * r > den THEN {q + 1}
      ELSE {q, q + 1}

\* the total_return of calculate_performance_metrics, in hundredths of a
\* percent: the values round() can give, NaN when the last total is NaN
total_return(portfolio_frame, initial_capital) ==
  LET last == portfolio_frame.total[Len(portfolio_frame.total)]
      capital == initial_capital * PerMille
  IN  IF last.nan THEN {NaN}
      ELSE {Num(h) : h \in round_hundredths((last.v - capital) * 10000, capital)}

\* the arguments: a price and a target position for each of up to MaxPeriods
\* periods, the default capital, no commission or the default commission
Prices == 99..102
Positions == {-1, 0, 1}
CommissionRates == {0, 1}

BacktestArgs ==
  UNION { [data : [1..n -> Prices], signals : [1..n -> Positions],
           initial_capital : {DefaultCapital}, commission : CommissionRates] :
          n \in 1..MaxPeriods }

\* the arguments are in hand
InitBacktest ==
  /\ pc = "backtest"
  /\ user_query = <<>>
  /\ query_info = NoQuery
  /\ tasks = <<>>
  /\ sorted_tasks = <<>>
  /\ completed = {}
  /\ execution_results = EmptyDict
  /\ executed = <<>>
  /\ invocations = <<>>
  /\ symbols_analyzed = <<>>
  /\ last_analysis_results = EmptyDict
  /\ now = 0
  /\ submitted = 0
  /\ plans = 0
  /\ parse_log = <<>>
  /\ backtest_args \in BacktestArgs
  /\ portfolio = None
  /\ comparison_args = None /\ ranking = None /\ comparison_summary = None
  /\ signal_args = None /\ trading_signals = None
  /\ rsi_args = None /\ rsi = None

Backtest ==
  /\ pc = "backtest"
  /\ portfolio' = execute(backtest_args.data, backtest_args.signals,
                          backtest_args.initial_capital, backtest_args.commission)
  /\ pc' = "backtested"
  /\ UNCHANGED <<engine_vars, backtest_args, comparison_vars, technical_vars>>

BacktestNext == Backtest

\* the backtest simulator, given prices and signals
SpecBacktest == InitBacktest /\ [][BacktestNext]_vars

----------------------------------------------------------------------------
(* StrategyComparison.rank_strategies and create_comparison_summary. The   *)
(* metrics are those calculate_performance_metrics rounds: total_return,   *)
(* max_drawdown and volatility in hundredths of a percent, sharpe_ratio in *)
(* thousandths. The score before rounding is in thousandths, the score     *)
(* after round(score, 2) in hundredths.                                    *)

MaxStrategies == 2

\* the keys of the results dict, in insertion order
StrategyNames == <<"ma_crossover", "rsi_reversal", "macd_trend", "bb_breakout">>

TotalReturns == {0, 1, 1000, 2000}
SharpeRatios == {500, 1000}
MaxDrawdowns == {-500, -1500}
Volatilities == {100, 200}

PerformanceMetrics ==
  [total_return : TotalReturns, sharpe_ratio : SharpeRatios,
   max_drawdown : MaxDrawdowns, volatility : Volatilities]

\* results: one entry per strategy that was backtested with success
ComparisonArgs ==
  UNION { { [i \in 1..n |-> [strategy |-> StrategyNames[i], performance_metrics |-> m[i]]] :
              m \in [1..n -> PerformanceMetrics] } : n \in 0..MaxStrategies }

\* total_return * 0.5 + sharpe_ratio * 10 * 0.3 - abs(max_drawdown) * 0.2
score_thousandths(metrics) ==
  5 * metrics.total_return + 3 * metrics.sharpe_ratio - 2 * Abs(metrics.max_drawdown)

\* round(score, 2). A score half-way between two hundredths is held by a
\* double just below or just above the half, and round() goes either way:
\* round(0.005, 2) is 0.01 and round(0.015, 2) is 0.01.
round2(thousandths) ==
  LET q == thousandths \div 10
      r == thousandths % 10
  IN  IF r < 5 THEN {q} ELSE IF r > 5 THEN {q + 1} ELSE {q, q + 1}

\* the rounded scores the strategies of results can get, by position
Roundings(results) ==
  { scores \in [1..Len(results) ->
                  UNION { round2(score_thousandths(results[i].performance_metrics)) :
                            i \in 1..Len(results) }] :
      \A i \in 1..Len(results) :
        scores[i] \in round2(score_thousandths(results[i].performance_metrics)) }

\* the entries appended to strategy_scores, in the order of results
strategy_scores(results, scores) ==
  [i \in 1..Len(results) |->
     [strategy |-> results[i].strategy,
      score |-> scores[i],
      total_return |-> results[i].performance_metrics.total_return,
      sharpe_ratio |-> results[i].performance_metrics.sharpe_ratio,
      max_drawdown |-> results[i].performance_metrics.max_drawdown]]

\* sorted(key=score, reverse=True) is stable: an entry goes after the entries
\* before it whose score is not less
RECURSIVE sorted_by_score_reversed(_)
sorted_by_score_reversed(entries) ==
  IF entries = <<>> THEN <<>>
  ELSE LET e == entries[Len(entries)]
           before == sorted_by_score_reversed(SubSeq(entries, 1, Len(entries) - 1))
           NotLess(x) == x.score >= e.score
           Less(x) == x.score < e.score
       IN  SelectSeq(before, NotLess) \o <<e>> \o SelectSeq(before, Less)

\* sorted(key=score) without reverse=True
RECURSIVE sorted_by_score(_)
sorted_by_score(entries) ==
  IF entries = <<>> THEN <<>>
  ELSE LET e == entries[Len(entries)]
           before == sorted_by_score(SubSeq(entries, 1, Len(entries) - 1))
           NotMore(x) == x.score <= e.score
           More(x) == x.score > e.score
       IN  SelectSeq(before, NotMore) \o <<e>> \o SelectSeq(before, More)

rank_strategies_ascending(results, scores) ==
  sorted_by_score(strategy_scores(results, scores))

rank_strategies(results, scores) ==
  sorted_by_score_reversed(strategy_scores(results, scores))

\* the values of a metric, in the order of results
values_of(results, metric) ==
  [i \in 1..Len(results) |-> results[i].performance_metrics[metric]]

\* max(values) and min(values)
max(values) == CHOOSE v \in Range(values) : \A w \in Range(values) : w <= v
min(values) == CHOOSE v \in Range(values) : \A w \in Range(values) : v <= w

\* max(values, key=abs) and min(values, key=abs): the first value whose
\* absolute value is the greatest, the least
max_key_abs(values) ==
  values[CHOOSE i \in 1..Len(values) :
           /\ \A j \in 1..Len(values) : Abs(values[j]) <= Abs(values[i])
           /\ \A j \in 1..(i - 1) : Abs(values[j]) < Abs(values[i])]
min_key_abs(values) ==
  values[CHOOSE i \in 1..Len(values) :
           /\ \A j \in 1..Len(values) : Abs(values[i]) <= Abs(values[j])
           /\ \A j \in 1..(i - 1) : Abs(values[i]) < Abs(values[j])]

RECURSIVE sum(_)
sum(values) ==
  IF values = <<>> THEN 0 ELSE sum(SubSeq(values, 1, Len(values) - 1)) + values[Len(values)]

SummaryMetrics == {"total_return", "sharpe_ratio", "max_drawdown", "volatility"}

\* the average sum(values) / len(values) is kept as a fraction
create_comparison_summary(results) ==
  IF results = <<>> THEN EmptyDict
  ELSE [metric \in SummaryMetrics |->
          LET values == values_of(results, metric)
          IN  [best |-> IF metric # "max_drawdown" THEN max(values) ELSE max_key_abs(values),
               worst |-> IF metric # "max_drawdown" THEN min(values) ELSE min_key_abs(values),
               average |-> [num |-> sum(values), den |-> Len(values)]]]

InitCompare ==
  /\ pc = "compare"
  /\ EngineAtRest
  /\ backtest_args = None /\ portfolio = None
  /\ comparison_args \in ComparisonArgs
  /\ ranking = None /\ comparison_summary = None
  /\ signal_args = None /\ trading_signals = None
  /\ rsi_args = None /\ rsi = None

\* StrategyComparison.execute: ranking = self.rank_strategies(results)
RankStrategies ==
  /\ pc = "compare"
  /\ \E scores \in Roundings(comparison_args) :
       ranking' = rank_strategies(comparison_args, scores)
  /\ pc' = "ranked"
  /\ UNCHANGED <<engine_vars, backtest_vars, comparison_args, comparison_summary,
                 technical_vars>>

\* StrategyComparison.execute: self.create_comparison_summary(results)
CreateComparisonSummary ==
  /\ pc = "ranked"
  /\ comparison_summary' = create_comparison_summary(comparison_args)
  /\ pc' = "summarised"
  /\ UNCHANGED <<engine_vars, backtest_vars, comparison_args, ranking, technical_vars>>

CompareNext ==
  \/ RankStrategies
  \/ CreateComparisonSummary

\* the strategy comparator, given the metrics of backtested strategies
SpecCompare == InitCompare /\ [][CompareNext]_vars

----------------------------------------------------------------------------
(* TechnicalAnalyzer.calculate_rsi and TradingSignals. Closing prices are  *)
(* whole numbers; an entry of an indicator series is a number or NaN; an   *)
(* RSI value is kept as the fraction num/den.                              *)

MaxBars == 4
MaxSteps == 2

\* the window lengths calculate_rsi is given
Periods == {2, 3}

RsiArgs ==
  UNION { [data : [1..n -> Prices], period : Periods] : n \in 0..MaxBars }

\* delta.where(delta > 0, 0): the entry where it is positive, 0 elsewhere,
\* also where the entry is NaN
gains(delta) == [t \in 1..Len(delta) |-> IF ~delta[t].nan /\ delta[t].v > 0 THEN delta[t].v ELSE 0]

\* -delta.where(delta < 0, 0)
losses(delta) ==
  [t \in 1..Len(delta) |-> IF ~delta[t].nan /\ delta[t].v < 0 THEN -delta[t].v ELSE 0]

RECURSIVE window_sum(_, _, _)
window_sum(xs, from, to) ==
  IF to < from THEN 0 ELSE window_sum(xs, from, to - 1) + xs[to]

\* rolling(window=period).mean(): NaN until the window is full, then the sum
\* of the last period entries over period
rolling_mean(xs, period) ==
  [t \in 1..Len(xs) |->
     IF t < period THEN [nan |-> TRUE, num |-> 0, den |-> 1]
     ELSE [nan |-> FALSE, num |-> window_sum(xs, t - period + 1, t), den |-> period]]

\* rsi = 100 - (100 / (1 + gain / loss)), entry by entry in floating point:
\* x/0 is inf for x > 0, so that the RSI is 100, and 0/0 is NaN
rsi_of(gain, loss) ==
  IF gain.nan \/ loss.nan THEN [nan |-> TRUE, num |-> 0, den |-> 1]
  ELSE IF loss.num = 0
       THEN IF gain.num = 0 THEN [nan |-> TRUE, num |-> 0, den |-> 1]
            ELSE [nan |-> FALSE, num |-> 100, den |-> 1]
       ELSE [nan |-> FALSE, num |-> 100 * gain.num, den |-> gain.num + loss.num]

calculate_rsi(data, period) ==
  LET delta == diff(Column(data))
      gain == rolling_mean(gains(delta), period)
      loss == rolling_mean(losses(delta), period)
  IN  [t \in 1..Len(data) |-> rsi_of(gain[t], loss[t])]

InitRsi ==
  /\ pc = "rsi"
  /\ EngineAtRest
  /\ backtest_args = None /\ portfolio = None
  /\ comparison_args = None /\ ranking = None /\ comparison_summary = None
  /\ signal_args = None /\ trading_signals = None
  /\ rsi_args \in RsiArgs
  /\ rsi = None

CalculateRsi ==
  /\ pc = "rsi"
  /\ rsi' = calculate_rsi(rsi_args.data, rsi_args.period)
  /\ pc' = "rsi_done"
  /\ UNCHANGED <<engine_vars, backtest_vars, comparison_vars, signal_args, trading_signals,
                 rsi_args>>

RsiNext == CalculateRsi

\* the RSI of a series of closing prices
SpecRsi == InitRsi /\ [][RsiNext]_vars

\* rsi_signal: the default thresholds
Oversold == 30
Overbought == 70

\* pd.Series(0, index=...)
zeros(n) == [t \in 1..n |-> 0]

\* a comparison with NaN is False
LessThan(a, b) == ~a.nan /\ ~b.nan /\ a.v < b.v

\* signal[short_ma > long_ma] = 1, then signal[short_ma < long_ma] = -1
ma_crossover_signal(short_ma, long_ma) ==
  [t \in 1..Len(short_ma) |->
     IF LessThan(short_ma[t], long_ma[t]) THEN -1
     ELSE IF LessThan(long_ma[t], short_ma[t]) THEN 1 ELSE 0]

\* signal[rsi < oversold] = 1, then signal[rsi > overbought] = -1
rsi_signal(rsi_series, oversold, overbought) ==
  [t \in 1..Len(rsi_series) |->
     IF LessThan(Num(overbought), rsi_series[t]) THEN -1
     ELSE IF LessThan(rsi_series[t], Num(oversold)) THEN 1 ELSE 0]

\* signal[macd_line > signal_line] = 1, then signal[macd_line < signal_line] = -1
macd_signal(macd_data) ==
  [t \in 1..Len(macd_data.macd_line) |->
     IF LessThan(macd_data.macd_line[t], macd_data.signal_line[t]) THEN -1
     ELSE IF LessThan(macd_data.signal_line[t], macd_data.macd_line[t]) THEN 1 ELSE 0]

\* signal[price < lower_band] = 1, then signal[price > upper_band] = -1
bollinger_bands_signal(price, bb_data) ==
  [t \in 1..Len(price) |->
     IF LessThan(bb_data.upper_band[t], price[t]) THEN -1
     ELSE IF LessThan(price[t], bb_data.lower_band[t]) THEN 1 ELSE 0]

\* overall.add(signal, fill_value=0) on series of one index
add(overall, signal) == [t \in 1..Len(overall) |-> overall[t] + signal[t]]

\* for signal in signals.values(): overall = overall.add(signal, fill_value=0)
RECURSIVE sum_signals(_, _)
sum_signals(overall, signals) ==
  IF signals = <<>> THEN overall
  ELSE sum_signals(add(overall, signals[1].signal), Tail(signals))

\* the loop that keeps the signal in hand instead of adding it
RECURSIVE last_signal(_, _)
last_signal(overall, signals) ==
  IF signals = <<>> THEN overall
  ELSE last_signal(signals[1].signal, Tail(signals))

\* lambda x: 1 if x > 0 else (-1 if x < 0 else 0)
normalize(x) == IF x > 0 THEN 1 ELSE IF x < 0 THEN -1 ELSE 0

calculate_overall_signal_last_wins(signals) ==
  IF signals = <<>> THEN <<>>
  ELSE LET overall == last_signal(zeros(Len(signals[1].signal)), signals)
       IN  [t \in 1..Len(overall) |-> normalize(overall[t])]

\* signals is the dict in insertion order: a list of name and signal
calculate_overall_signal(signals) ==
  IF signals = <<>> THEN <<>>
  ELSE LET overall == sum_signals(zeros(Len(signals[1].signal)), signals)
       IN  [t \in 1..Len(overall) |-> normalize(overall[t])]

\* TradingSignals.execute: the signals of the indicators technical_data holds,
\* then the overall signal under 'overall_signal'
signals_of(data, technical_data) ==
  LET has(key) == key \in DOMAIN technical_data
      ma == IF has("sma_20") /\ has("sma_50")
            THEN <<[name |-> "ma_crossover",
                    signal |-> ma_crossover_signal(technical_data.sma_20,
                                                   technical_data.sma_50)]>>
            ELSE <<>>
      rs == IF has("rsi")
            THEN <<[name |-> "rsi_signal",
                    signal |-> rsi_signal(technical_data.rsi, Oversold, Overbought)]>>
            ELSE <<>>
      mc == IF has("macd")
            THEN <<[name |-> "macd_signal", signal |-> macd_signal(technical_data.macd)]>>
            ELSE <<>>
      bb == IF has("bollinger_bands")
            THEN <<[name |-> "bb_signal",
                    signal |-> bollinger_bands_signal(Column(data),
                                                      technical_data.bollinger_bands)]>>
            ELSE <<>>
      signals == ma \o rs \o mc \o bb
  IN  signals \o <<[name |-> "overall_signal", signal |-> calculate_overall_signal(signals)]>>

\* the series of n entries with one value
Constant(n, v) == [t \in 1..n |-> v]

\* the dicts of a key: absent, or the key with one of the values
Entry(key, values) == {EmptyDict} \cup { [k \in {key} |-> v] : v \in values }

\* the union of dicts with distinct keys
Merge(d1, d2) == [k \in DOMAIN d1 \cup DOMAIN d2 |-> IF k \in DOMAIN d1 THEN d1[k] ELSE d2[k]]

\* technical_data over n dates: both averages, the short one below or above the
\* long one or not yet defined, or the short one alone; an RSI oversold,
\* overbought or not yet defined; a MACD line below or above its signal line;
\* bands the price is below or above
TechnicalData(n) ==
  LET sma20 == Entry("sma_20", [1..n -> {Num(0), Num(2), NaN}])
      sma50 == Entry("sma_50", {Constant(n, Num(1))})
      moving == { Merge(a, b) : a \in sma20 \ {EmptyDict}, b \in sma50 \ {EmptyDict} }
                   \cup Entry("sma_20", {Constant(n, Num(2))})
      rsis == Entry("rsi", [1..n -> {Num(20), Num(80), NaN}])
      macds == Entry("macd", { [macd_line |-> line, signal_line |-> Constant(n, Num(1))] :
                                 line \in [1..n -> {Num(0), Num(2)}] })
      bands == Entry("bollinger_bands",
                     { [lower_band |-> Constant(n, Num(100)),
                        upper_band |-> Constant(n, Num(101))] })
  IN  { Merge(Merge(a, b), Merge(c, d)) : a \in moving, b \in rsis, c \in macds, d \in bands }

SignalArgs ==
  UNION { [data : [1..n -> {99, 102}], technical_data : TechnicalData(n)] : n \in 0..MaxSteps }

InitSignals ==
  /\ pc = "signals"
  /\ EngineAtRest
  /\ backtest_args = None /\ portfolio = None
  /\ comparison_args = None /\ ranking = None /\ comparison_summary = None
  /\ signal_args \in SignalArgs
  /\ trading_signals = None
  /\ rsi_args = None /\ rsi = None

GenerateSignals ==
  /\ pc = "signals"
  /\ trading_signals' = signals_of(signal_args.data, signal_args.technical_data)
  /\ pc' = "signalled"
  /\ UNCHANGED <<engine_vars, backtest_vars, comparison_vars, signal_args, rsi_args, rsi>>

SignalsNext == GenerateSignals

\* the signal fusion engine, given indicator series
SpecSignals == InitSignals /\ [][SignalsNext]_vars

----------------------------------------------------------------------------
(* Claims about the query interpreter and the task graph builder           *)

AAPL_vs_MSFT == <<"A","A","P","L"," ","v","s"," ","M","S","F","T">>

\* C1: planning the query "AAPL vs MSFT" yields exactly 10 tasks: the four
\* stock-analysis tasks of AAPL, the four of MSFT, a compare task that depends
\* on exactly the signals tasks of AAPL and of MSFT, and a visualize task that
\* depends on the compare task.
C1_ComparisonPlanHasTenTasks ==
  (pc = "planned" /\ user_query = AAPL_vs_MSFT) =>
    /\ Len(tasks) = 10
    /\ SubSeq(tasks, 1, 4) = stock_analysis_tasks(AAPL)
    /\ SubSeq(tasks, 5, 8) = stock_analysis_tasks(MSFT)
    /\ tasks[9].tool_name = "strategy_comparison"
    /\ Range(tasks[9].dependencies) = {signals_(AAPL), signals_(MSFT)}
    /\ tasks[10].task_type = "visualization"
    /\ tasks[10].dependencies = <<tasks[9].task_id>>

\* the tokens of a text: its maximal runs of word characters, left to right
RECURSIVE TokensFrom(_, _, _)
TokensFrom(s, k, current) ==
  IF k > Len(s) THEN (IF current = <<>> THEN <<>> ELSE <<current>>)
  ELSE IF s[k] \in WordChars THEN TokensFrom(s, k + 1, Append(current, s[k]))
  ELSE (IF current = <<>> THEN <<>> ELSE <<current>>) \o TokensFrom(s, k + 1, <<>>)

Tokens(s) == TokensFrom(s, 1, <<>>)

IsAlphabetic(token) == \A k \in 1..Len(token) : token[k] \in UpperSet \cup LowerSet

\* the alphabetic tokens of 1 to 5 letters that are not stop words, as symbols
RECURSIVE SymbolTokens(_)
SymbolTokens(tokens) ==
  IF tokens = <<>> THEN <<>>
  ELSE (IF IsAlphabetic(Head(tokens)) /\ Len(Head(tokens)) \in 1..5
           /\ upper(Head(tokens)) \notin common_words
        THEN <<upper(Head(tokens))>> ELSE <<>>) \o SymbolTokens(Tail(tokens))

\* xs with only the first occurrence of each element kept
RECURSIVE FirstOccurrences(_, _)
FirstOccurrences(xs, seen) ==
  IF xs = <<>> THEN <<>>
  ELSE IF Head(xs) \in seen THEN FirstOccurrences(Tail(xs), seen)
  ELSE <<Head(xs)>> \o FirstOccurrences(Tail(xs), seen \cup {Head(xs)})

\* C9: the symbol list extracted from a text holds each alphabetic token of
\* length 1 to 5 that is not in the stop-list, in order of first occurrence,
\* and holds no symbol twice.
C9_SymbolsAreDeduplicated ==
  pc = "parsed" =>
    query_info.symbols = FirstOccurrences(SymbolTokens(Tokens(user_query)), {})

\* the comparison form in a text as written: the first comparison pattern that
\* matches it, and the two ticker symbols that pattern captures
ComparisonForm(text) ==
  LET k == first_match(query_patterns["comparison"], text, 1)
  IN  IF k = 0 THEN NoMatch ELSE search(query_patterns["comparison"][k], text)

\* C10: a text in which two ticker symbols A and B appear in a comparison form
\* (such as "A vs B") is classified as comparison, whichever other category
\* patterns match it too, and its symbol list is exactly [A, B].
C10_ComparisonIsCheckedFirst ==
  (pc = "parsed" /\ ComparisonForm(user_query).found) =>
    /\ query_info.query_type = "comparison"
    /\ query_info.symbols = <<ComparisonForm(user_query).groups.g1,
                              ComparisonForm(user_query).groups.g2>>

\* a pattern of the category is found in the text, as written or in lower case
HasMatchingPattern(category, text) ==
  \/ first_match(query_patterns[category], text, 1) # 0
  \/ first_match(query_patterns[category], strip(lower(text)), 1) # 0

\* the first category from position k of the fixed order, comparison apart, that
\* has a matching pattern; 0 if none has
RECURSIVE FirstMatchingCategory(_, _)
FirstMatchingCategory(text, k) ==
  IF k > Len(CategoryOrder) THEN 0
  ELSE IF CategoryOrder[k] # "comparison" /\ HasMatchingPattern(CategoryOrder[k], text) THEN k
  ELSE FirstMatchingCategory(text, k + 1)

\* C11: when no comparison pattern matches, the query type is the first of stock
\* analysis, technical analysis, backtesting, reporting, chart request that has a
\* matching pattern; when none has, it is stock_analysis if a symbol was
\* extracted and general_query if none was; a general_query is planned as the
\* empty task list.
C11_FirstMatchingCategoryWins ==
  /\ (pc \in {"parsed", "planned"} /\ ~HasMatchingPattern("comparison", user_query)) =>
       LET k == FirstMatchingCategory(user_query, 1)
       IN  query_info.query_type =
             IF k # 0 THEN CategoryOrder[k]
             ELSE IF query_info.symbols # <<>> THEN "stock_analysis" ELSE "general_query"
  /\ (pc = "planned" /\ query_info.query_type = "general_query") => tasks = <<>>

\* C12: the task ids of a planned list are pairwise distinct.
C12_TaskIdsAreDistinct ==
  pc = "planned" => DistinctIds(tasks)

\* C14: a stock-analysis classification with symbols S is planned as 4 tasks per
\* symbol, in symbol order: a fetch with no dependency, a technical analysis
\* that depends only on the fetch, a signal generation and a visualization that
\* each depend only on the technical analysis; no task depends on a task of
\* another symbol.
C14_StockAnalysisPlanShape ==
  (pc = "planned" /\ query_info.query_type = "stock_analysis") =>
    LET S == query_info.symbols
    IN  /\ Len(tasks) = 4 * Len(S)
        /\ \A k \in 1..Len(S) :
             LET fetch == tasks[4 * k - 3]
                 technical == tasks[4 * k - 2]
                 signal == tasks[4 * k - 1]
                 visualize == tasks[4 * k]
             IN  /\ \A t \in {fetch, technical, signal, visualize} : t.parameters.symbol = S[k]
                 /\ fetch.task_type = "data_fetch" /\ fetch.dependencies = <<>>
                 /\ technical.tool_name = "technical_analyzer"
                 /\ technical.dependencies = <<fetch.task_id>>
                 /\ signal.tool_name = "trading_signals"
                 /\ signal.dependencies = <<technical.task_id>>
                 /\ visualize.task_type = "visualization"
                 /\ visualize.dependencies = <<technical.task_id>>
        /\ \A i, j \in 1..Len(tasks) :
             tasks[j].task_id \in Range(tasks[i].dependencies) =>
               tasks[i].parameters.symbol = tasks[j].parameters.symbol

\* two different symbols were planned for stock analysis
C14_Witness ==
  /\ pc = "planned" /\ query_info.query_type = "stock_analysis"
  /\ query_info.symbols = <<AAPL, MSFT>>
  /\ Len(tasks) = 8

\* C13: in a planned list, every dependency id of every task is the id of a
\* task earlier in the list; so every dependency id is in the list and no task
\* depends on itself, directly or through other tasks.
C13_DependenciesAreEarlierTasks ==
  pc = "planned" =>
    /\ \A k \in 1..Len(tasks) :
         \A d \in Range(tasks[k].dependencies) :
           \E j \in 1..(k - 1) : tasks[j].task_id = d
    /\ ValidDeps(tasks)
    /\ Acyclic(tasks)

\* a comparison of two symbols was planned
C13_Witness ==
  /\ pc = "planned" /\ query_info.query_type = "comparison"
  /\ query_info.symbols = <<AAPL, MSFT>>
  /\ Len(tasks) = 10

\* the time of the latest result stored for a symbol
LastAnalyzedAt(symbol) ==
  LET times == {last_analysis_results[symbol][a].timestamp :
                  a \in DOMAIN last_analysis_results[symbol]}
  IN  CHOOSE t \in times : \A u \in times : u <= t

\* the n symbols analyzed most recently (all of them if there are fewer): those
\* with fewer than n symbols analyzed after them
MostRecentlyAnalyzed(n) ==
  {s \in DOMAIN last_analysis_results :
     Cardinality({r \in DOMAIN last_analysis_results :
                    LastAnalyzedAt(r) > LastAnalyzedAt(s)}) < n}

\* the plan of a query type that takes its symbol from memory when it has none
PlanOf(query_type, symbols) ==
  CASE query_type = "technical_analysis" -> create_technical_analysis_plan(symbols)
    [] query_type = "backtesting" -> create_backtesting_plan(symbols)
    [] query_type = "chart_request" -> create_chart_plan(symbols)

\* C15: a technical-analysis, backtesting or chart-request classification with
\* no symbols is planned for exactly one symbol, the one analyzed most recently
\* (the symbol of the latest successful task that carried a symbol); if no
\* symbol has been analyzed, the plan is empty.
C15_MostRecentSymbolIsSubstituted ==
  (/\ pc = "planned"
   /\ query_info.query_type \in {"technical_analysis", "backtesting", "chart_request"}
   /\ query_info.symbols = <<>>) =>
    IF symbols_analyzed = <<>> THEN tasks = <<>>
    ELSE \E s \in MostRecentlyAnalyzed(1) : tasks = PlanOf(query_info.query_type, <<s>>)

\* C16: a reporting classification is planned as one report task with no
\* dependencies whose symbols are the symbols analyzed most recently, at most 3,
\* whatever symbols the classification carries; if no symbol has been analyzed,
\* the plan is empty.
C16_ReportUsesRecentSymbols ==
  (pc = "planned" /\ query_info.query_type = "reporting") =>
    IF symbols_analyzed = <<>> THEN tasks = <<>>
    ELSE /\ Len(tasks) = 1
         /\ tasks[1].task_type = "reporting"
         /\ tasks[1].dependencies = <<>>
         /\ Len(tasks[1].parameters.symbols) <= 3
         /\ Range(tasks[1].parameters.symbols) = MostRecentlyAnalyzed(3)

----------------------------------------------------------------------------
(* Claims about the executor                                               *)

\* execute_plan has returned the results of the list in tasks
Returned == pc = "idle" /\ plans > 0

\* each position of tasks was given to _execute_task exactly once
ExecutedOnce == Len(executed) = Len(tasks) /\ Range(executed) = 1..Len(tasks)

Failed(id) == id \in DOMAIN execution_results /\ ~execution_results[id].success

\* C2: for a list with pairwise distinct ids and an acyclic dependency graph
\* whose dependency ids are all in the list, execute_plan executes every task
\* exactly once and returns a map whose keys are exactly the ids of the list;
\* no outcome of an earlier plan remains in it.
C2_OneOutcomePerTask ==
  (Returned /\ ValidPlan(tasks)) =>
    (ExecutedOnce /\ DOMAIN execution_results = IdsOf(tasks))

\* a second plan of one task has returned after a first plan of two tasks, whose
\* second id the second plan does not have
C2_Witness ==
  /\ Returned /\ ValidPlan(tasks)
  /\ plans = 2 /\ submitted = 3 /\ Len(tasks) = 1

\* C3: a task is given to its tool only after all of its dependencies have been
\* executed.
C3_DependenciesFirst ==
  \A j \in 1..Len(executed) :
    \A d \in Range(tasks[executed[j]].dependencies) :
      \E i \in 1..(j - 1) : tasks[executed[i]].task_id = d

\* a chain listed in reverse was executed last task first
C3_Witness == executed = <<3, 2, 1>>

\* C4: a list with a dependency cycle or a dependency id that names no task of
\* the list is rejected before any task is executed; the scheduler is never in
\* a pass of its loop that can add no task, which it would repeat forever.
C4_SchedulerNeverStuck ==
  (pc = "sort" /\ Len(sorted_tasks) < Len(tasks)) =>
    first_executable(tasks, completed, 1) # 0

C6_FaultsBecomeFailures ==
  /\ pc # "raised"
  /\ \A i \in 1..Len(invocations) :
       invocations[i].outcome.raised =>
         LET id == tasks[invocations[i].task].task_id
         IN  /\ id \in DOMAIN execution_results
             /\ execution_results[id] =
                  ToolResult(FALSE, None,
                             <<"Task execution failed: ", invocations[i].outcome.message>>)
  /\ Returned => ExecutedOnce

\* a tool raised, and the tool of a later task was invoked all the same
C6_Witness ==
  /\ Returned
  /\ \E i \in 1..Len(invocations) : invocations[i].outcome.raised /\ i < Len(invocations)

\* the step that executes one more task
ExecutesOne == Len(executed') = Len(executed) + 1
JustExecuted == tasks[executed'[Len(executed')]]

\* C7: a task whose tool name is not in the registry gets the failure outcome
\* 'tool not found'; no tool is invoked and the session memory is unchanged.
C7_UnknownToolHasNoEffect ==
  [][ (ExecutesOne /\ JustExecuted.tool_name \notin Registry) =>
        /\ JustExecuted.task_id \in DOMAIN execution_results'
        /\ execution_results'[JustExecuted.task_id] =
             ToolResult(FALSE, None,
                        <<"Tool ", JustExecuted.tool_name, " not found in registry">>)
        /\ invocations' = invocations
        /\ symbols_analyzed' = symbols_analyzed
        /\ last_analysis_results' = last_analysis_results ]_vars

\* a task with a symbol and an unregistered tool was executed
C7_Witness ==
  \E j \in 1..Len(executed) :
    /\ tasks[executed[j]].tool_name \notin Registry
    /\ "symbol" \in DOMAIN tasks[executed[j]].parameters

\* every stored result but the one under symbol and tool is as it was
SameButFor(symbol, tool_name) ==
  /\ DOMAIN last_analysis_results' = DOMAIN last_analysis_results \cup {symbol}
  /\ \A s \in DOMAIN last_analysis_results :
       /\ DOMAIN last_analysis_results'[s] =
            DOMAIN last_analysis_results[s] \cup (IF s = symbol THEN {tool_name} ELSE {})
       /\ \A a \in DOMAIN last_analysis_results[s] :
            (s # symbol \/ a # tool_name) =>
              last_analysis_results'[s][a] = last_analysis_results[s][a]

Pending(p) == p \notin Range(sorted_tasks)
Ready(p) ==
  \A d \in Range(tasks[p].dependencies) :
    \E q \in Range(sorted_tasks) : tasks[q].task_id = d

\* C26: at every step of the scheduler the task chosen next is the earliest
\* task of the original list among the pending tasks whose dependencies have
\* all been chosen before.
C26_EarliestReadyPendingIsChosen ==
  [][ (pc = "sort" /\ Len(sorted_tasks') = Len(sorted_tasks) + 1) =>
        LET chosen == sorted_tasks'[Len(sorted_tasks')]
        IN  /\ Pending(chosen) /\ Ready(chosen)
            /\ \A p \in 1..(chosen - 1) : ~(Pending(p) /\ Ready(p)) ]_vars

\* the shapes of a payload that are told apart: a fetch outcome holds a
\* historical series, an indicator outcome holds indicators by name
IsFetchOutcome(payload) == "historical_data" \in DOMAIN payload
IsIndicatorOutcome(payload) == DOMAIN payload \cap {"sma_20", "rsi", "macd"} # {}

\* the step that invokes a tool
InvokesTool == Len(invocations') = Len(invocations) + 1

\* C17: the parameters a tool is invoked with hold the data of each dependency
\* of the task that was executed with success: the historical series of a fetch
\* outcome as 'data', an indicator outcome as 'technical_data', and a payload of
\* any other shape in the bag 'dependency_data' under the dependency's id.
C17_DependencyDataIsMerged ==
  [][ InvokesTool =>
        LET call == invocations'[Len(invocations')]
            task == tasks[call.task]
        IN  \A d \in Range(task.dependencies) :
              (d \in DOMAIN execution_results /\ execution_results[d].success) =>
                LET payload == execution_results[d].data
                IN  IF IsFetchOutcome(payload)
                    THEN /\ "data" \in DOMAIN call.params
                         /\ call.params.data = payload.historical_data
                    ELSE IF IsIndicatorOutcome(payload)
                    THEN /\ "technical_data" \in DOMAIN call.params
                         /\ call.params.technical_data = payload
                    ELSE /\ "dependency_data" \in DOMAIN call.params
                         /\ d \in DOMAIN call.params.dependency_data
                         /\ call.params.dependency_data[d] = payload ]_vars

\* the scheduler's loops run on: execute_plan is one thread of control and every
\* tool call returns
FairSpecExec ==
  /\ SpecExec
  /\ WF_vars(SortScan) /\ WF_vars(SortReturn) /\ WF_vars(ExecuteTask) /\ WF_vars(ReturnResults)

----------------------------------------------------------------------------
(* Claims about a session of queries                                       *)

C27_PlansAreScheduled ==
  (pc = "sort" /\ tasks = create_task_plan(query_info, symbols_analyzed)) =>
    (Len(sorted_tasks) < Len(tasks) => first_executable(tasks, completed, 1) # 0)

\* the symbols of the classification are pairwise distinct
DistinctSymbols ==
  \A i \in 1..Len(query_info.symbols) : \A j \in 1..Len(query_info.symbols) :
    i # j => query_info.symbols[i] # query_info.symbols[j]

\* tasks is the plan of the classification in hand
IsThePlan == pc \in {"sort", "exec"} \/ (pc = "idle" /\ plans > 0)

\* what the tool of each task did when execute_plan invoked it
OutcomeAt ==
  [k \in 1..Len(tasks) |->
     IF \E i \in 1..Len(invocations) : invocations[i].task = k
     THEN invocations[CHOOSE i \in 1..Len(invocations) : invocations[i].task = k].outcome
     ELSE CHOOSE outcome \in SessionOutcomes : TRUE]

\* the tools a run invoked, in order, each with the task it was invoked for
ToolSequence(calls) ==
  [i \in 1..Len(calls) |-> [task |-> calls[i].task, tool_name |-> calls[i].tool_name]]

\* C28: on every plan create_task_plan builds for pairwise distinct symbols the
\* scheduler takes the tasks in the order of the list, never finds itself
\* without a task to take, and execute_plan invokes the tools in the sequence in
\* which the list-order executor of simple_reasoning.py invokes them.
C28_SchedulerKeepsListOrder ==
  (IsThePlan /\ DistinctSymbols) =>
    /\ \A k \in 1..Len(sorted_tasks) : sorted_tasks[k] = k
    /\ \A k \in 1..Len(executed) : executed[k] = k
    /\ (pc = "sort" /\ Len(sorted_tasks) < Len(tasks)) =>
         first_executable(tasks, completed, 1) # 0
    /\ pc = "idle" =>
         /\ Len(executed) = Len(tasks)
         /\ ToolSequence(invocations) =
              ToolSequence(simple_execute_plan(tasks, OutcomeAt, <<>>).invocations)

\* the plan of a comparison of two symbols has been executed, a fetch failed
C28_Witness ==
  /\ pc = "idle" /\ plans = 1 /\ DistinctSymbols
  /\ Len(query_info.symbols) = 2 /\ Len(tasks) >= 3
  /\ \E k \in 1..Len(tasks) : tasks[k].dependencies # <<>>
  /\ Failed(tasks[1].task_id)
  /\ Len(invocations) = Len(tasks)

----------------------------------------------------------------------------
(* Claims about the backtest simulator                                     *)

\* the worked example: prices, target positions, capital 10000, no commission
IsWorkedExample ==
  /\ backtest_args.data = <<100, 101, 99, 102>>
  /\ backtest_args.signals = <<0, 1, 1, -1>>
  /\ backtest_args.initial_capital = 10000
  /\ backtest_args.commission = 0

\* C18: on the worked example the position deltas are [0, 1, 0, -2], the
\* holdings values [0, 101, 101, -103], the cash [10000, 9899, 9899, 10103] and
\* the total value 10000 in each of the four periods; every period, the first
\* too, has a defined value.
C18_WorkedExample ==
  (pc = "backtested" /\ IsWorkedExample) =>
    /\ portfolio.positions = Column(<<0, 1, 0, -2>>)
    /\ portfolio.holdings = Column(<<0, 101, 101, -103>>)
    /\ portfolio.cash = Column(<<10000, 9899, 9899, 10103>>)
    /\ portfolio.total = [t \in 1..4 |-> Num(10000 * PerMille)]

\* C19: in every period in which the portfolio has values, and at every
\* commission rate, the total value is the cash plus the holdings value.
C19_TotalIsCashPlusHoldings ==
  pc = "backtested" =>
    \A t \in 1..Len(portfolio.total) :
      ~portfolio.total[t].nan =>
        portfolio.total[t] =
          Mul(Add(portfolio.cash[t], portfolio.holdings[t]), Num(PerMille))

\* C20: the return of a period is the change of the total value, commission
\* deducted, from the total value of the period before, as a fraction of the
\* latter.
C20_ReturnsReflectCommission ==
  pc = "backtested" =>
    \A t \in 2..Len(portfolio.total) :
      (~portfolio.total[t].nan /\ ~portfolio.total[t - 1].nan) =>
        /\ ~portfolio.returns[t].nan
        /\ portfolio.returns[t].num * portfolio.total[t - 1].v =
             (portfolio.total[t].v - portfolio.total[t - 1].v) * portfolio.returns[t].den

----------------------------------------------------------------------------
(* Claims about the strategy comparator                                    *)

\* where a strategy stands in the results given to rank_strategies
InputPosition(strategy) ==
  CHOOSE i \in 1..Len(comparison_args) : comparison_args[i].strategy = strategy

\* the ranking has one entry per strategy of the results, with its metrics
OneEntryPerStrategy ==
  /\ Len(ranking) = Len(comparison_args)
  /\ \A i \in 1..Len(comparison_args) :
       \E k \in 1..Len(ranking) :
         /\ ranking[k].strategy = comparison_args[i].strategy
         /\ ranking[k].total_return = comparison_args[i].performance_metrics.total_return
         /\ ranking[k].sharpe_ratio = comparison_args[i].performance_metrics.sharpe_ratio
         /\ ranking[k].max_drawdown = comparison_args[i].performance_metrics.max_drawdown

\* by score descending, equal scores in the order of the input
RankedByScore ==
  \A k \in 1..Len(ranking) : \A l \in (k + 1)..Len(ranking) :
    /\ ranking[k].score >= ranking[l].score
    /\ ranking[k].score = ranking[l].score =>
         InputPosition(ranking[k].strategy) < InputPosition(ranking[l].strategy)

\* the metrics (10, 1.0, -5) and (20, 0.5, -15) of the example
IsRankingExample ==
  /\ Len(comparison_args) = 2
  /\ comparison_args[1].performance_metrics.total_return = 1000
  /\ comparison_args[1].performance_metrics.sharpe_ratio = 1000
  /\ comparison_args[1].performance_metrics.max_drawdown = -500
  /\ comparison_args[2].performance_metrics.total_return = 2000
  /\ comparison_args[2].performance_metrics.sharpe_ratio = 500
  /\ comparison_args[2].performance_metrics.max_drawdown = -1500

ScoreOf(strategy) ==
  ranking[CHOOSE k \in 1..Len(ranking) : ranking[k].strategy = strategy].score

GreatestMagnitude(values) ==
  CHOOSE a \in {Abs(v) : v \in Range(values)} : \A v \in Range(values) : Abs(v) <= a
LeastMagnitude(values) ==
  CHOOSE a \in {Abs(v) : v \in Range(values)} : \A v \in Range(values) : a <= Abs(v)

\* C22: in the summary, the 'worst' max_drawdown is the value of largest
\* absolute value among the strategies and the 'best' the value of smallest
\* absolute value; for the other metrics 'best' is the maximum and 'worst' the
\* minimum; 'average' is the arithmetic mean.
C22_SummaryBestWorstAverage ==
  (pc = "summarised" /\ comparison_args # <<>>) =>
    \A metric \in SummaryMetrics :
      LET values == values_of(comparison_args, metric)
          entry == comparison_summary[metric]
      IN  /\ entry.best \in Range(values) /\ entry.worst \in Range(values)
          /\ IF metric = "max_drawdown"
             THEN /\ Abs(entry.worst) = GreatestMagnitude(values)
                  /\ Abs(entry.best) = LeastMagnitude(values)
             ELSE /\ \A v \in Range(values) : entry.worst <= v /\ v <= entry.best
          /\ entry.average.num = sum(values) /\ entry.average.den = Len(values)

----------------------------------------------------------------------------
(* Claims about the indicator engine and the signal fusion engine          *)

\* the per-indicator signals of the dict TradingSignals.execute built, and
\* the fused signal
PerIndicator == SubSeq(trading_signals, 1, Len(trading_signals) - 1)
Fused == trading_signals[Len(trading_signals)].signal

\* how many indicators give the value at step t
CountAt(t, value) == Cardinality({k \in 1..Len(PerIndicator) : PerIndicator[k].signal[t] = value})

\* C23: the fused signal at a step is the sign of the sum of the signals of
\* the indicators present at that step, whatever their order: +1 if more of
\* them say +1 than -1, -1 if more say -1, 0 otherwise; with no indicator
\* signal the fused output is the empty series.
C23_FusedIsSignOfSum ==
  pc = "signalled" =>
    /\ trading_signals[Len(trading_signals)].name = "overall_signal"
    /\ IF PerIndicator = <<>> THEN Fused = <<>>
       ELSE /\ Len(Fused) = Len(signal_args.data)
            /\ \A k \in 1..Len(PerIndicator) : \A t \in 1..Len(Fused) :
                 PerIndicator[k].signal[t] \in {-1, 0, 1}
            /\ \A t \in 1..Len(Fused) :
                 /\ Fused[t] \in {-1, 0, 1}
                 /\ Fused[t] = 1 <=> CountAt(t, 1) > CountAt(t, -1)
                 /\ Fused[t] = -1 <=> CountAt(t, 1) < CountAt(t, -1)

\* four indicators: at one step three say buy and one sell, at another two say
\* buy and two sell
C23_Witness ==
  /\ pc = "signalled"
  /\ Len(PerIndicator) = 4
  /\ \E t \in 1..Len(Fused) : CountAt(t, 1) = 3 /\ CountAt(t, -1) = 1 /\ Fused[t] = 1
  /\ \E t \in 1..Len(Fused) : CountAt(t, 1) = 2 /\ CountAt(t, -1) = 2 /\ Fused[t] = 0

\* the closing price fell from period u - 1 to period u by this much
LossAt(u) ==
  IF u >= 2 /\ rsi_args.data[u] < rsi_args.data[u - 1]
  THEN rsi_args.data[u - 1] - rsi_args.data[u] ELSE 0

\* the window of period t is full and no closing price in it fell
TrailingLossIsZero(t) ==
  /\ t >= rsi_args.period
  /\ \A u \in (t - rsi_args.period + 1)..t : LossAt(u) = 0

\* C24: every RSI value that is defined lies in [0, 100], and the RSI is
\* exactly 100 in every period whose trailing average loss is 0, constant
\* prices included.
C24_RsiBoundedAnd100WithoutLoss ==
  pc = "rsi_done" =>
    \A t \in 1..Len(rsi) :
      /\ ~rsi[t].nan => (0 <= rsi[t].num /\ rsi[t].num <= 100 * rsi[t].den)
      /\ TrailingLossIsZero(t) => (~rsi[t].nan /\ rsi[t].num = 100 * rsi[t].den)

====
